---- MODULE Spec2Model ----
(***************************************************************************)
(* PowerSheet: the spreadsheet coordinate codec (lib/excel-coordinates),   *)
(* the formula engine wrapper (services/FormulaEngine) and the grid's      *)
(* selection / edit / load logic (ExcelGrid, App).                         *)
(*                                                                         *)
(* Text is modelled as a sequence of one-character strings, so that        *)
(* formatting and parsing are computed character by character.             *)
(***************************************************************************)
EXTENDS Integers, Sequences, FiniteSets, TLC

VARIABLES
    \* ---- excel-coordinates: one conversion in progress ----
    colIndex,      \* argument of numberToColumn / createCellAddress
    rowIndex,      \* argument of createCellAddress
    column,        \* argument of columnToNumber (letters)
    ntcIndex,      \* numberToColumn: local `index`
    ntcResult,     \* numberToColumn: local `result`
    ntcSteps,      \* numberToColumn: iterations of the while loop so far
    address,       \* the ExcelCellAddress built by createCellAddress, or NoAddress
    parsed,        \* the value returned by parseCellAddress, or NotParsed
    ctnResult,     \* the value returned by columnToNumber(column), or NotComputed
    inputText,     \* a text handed to a parser or validator of the codec
    corners,       \* two corner cells and a probe cell, as (row, col) indices
    textOp,        \* the last call made on inputText or corners, with its result
    \* ---- FormulaEngine ----
    engine,        \* the singleton: HyperFormula sheets and sheetMap
    backingColumnNames, \* the columnNames argument callers pass (schema order)
    formulaInput,  \* the formula a caller enters: [left, op, right] column names
    lastOp,        \* the last call made on the engine, with its arguments
    \* ---- App (React state), gridStore, ExcelGrid ----
    activeSheetId, \* App: id of the sheet shown, or NoSheet
    schema,        \* App: the table schema shown, or NoSchema (null)
    gridData,      \* App: the rows shown
    isLoading,     \* App: a load is showing the loading view
    selectedCell,  \* gridStore: the selected ExcelCellAddress, or NoAddress (null)
    editingCell,   \* ExcelGrid: the open edit session {address, value}, or NotEditing
    focus,         \* the element holding keyboard focus: "body", "grid", "cellInput"
    currentFormula, \* gridStore: the text the formula bar shows
    \* ---- backing store and requests in flight ----
    tables,        \* the store: per sheet, its rows and its saved formulas
    loads,         \* every loadSheetData call so far, with its progress
    updates,       \* every updateCell request so far, with its progress
    lastEvent,     \* the last event handled, with its arguments
    \* ---- VirtualGrid: selection and drag to fill ----
    gridSelection, \* VirtualGrid: its selected cell {row, col}, or NoCell (null)
    isDragging,    \* VirtualGrid: a drag of the fill handle is in progress
    dragStart,     \* VirtualGrid: the cell the drag started on, or NoCell
    dragEnd,       \* VirtualGrid: the cell the pointer entered last, or NoCell
    lastFill,      \* the last release of a drag, with the onCellEdit calls it made
    \* ---- FormulaBar and the formula metadata store ----
    formulaBar,    \* FormulaBar: its state {isEditing, editingFormula}
    formulas,      \* formulaMetadataStore: the list of formula metadata
    \* ---- App: the sheet list; useDatabase: the worker's requests ----
    sheets,        \* App: the ids of the sheets in the tab list
    deletes,       \* every handleDeleteSheet call that sent its request
    pendingRequests, \* useDatabase: the ids in the pendingRequests map
    requests       \* every sendMessage call so far, with its progress

parseVars == <<inputText, corners, textOp>>

codecVars == <<colIndex, rowIndex, column, ntcIndex, ntcResult, ntcSteps,
               address, parsed, ctnResult, parseVars>>

engineVars == <<engine, backingColumnNames, formulaInput, lastOp>>

fillVars == <<gridSelection, isDragging, dragStart, dragEnd, lastFill>>

panelVars == <<formulaBar, formulas>>

tabVars == <<sheets, deletes>>

workerVars == <<pendingRequests, requests>>

appCore == <<activeSheetId, schema, gridData, isLoading, selectedCell,
             editingCell, focus, currentFormula, tables, loads, updates,
             lastEvent, fillVars, panelVars>>

appVars == <<appCore, tabVars, workerVars>>

vars == <<codecVars, engineVars, appVars>>

------------------------------------------------------------------------------
(* Bounds of the codec inputs *)

\* column indices 0..MaxColIndex: crosses Z->AA (25->26) and ZZ->AAA (701->702)
MaxColIndex == 704
\* row indices 0..MaxRowIndex: crosses the one-digit / two-digit row numbers
MaxRowIndex == 11
\* letter strings of length 1..MaxColumnLen over A-Z
MaxColumnLen == 2

------------------------------------------------------------------------------
(* Characters *)

UpperLetters == <<"A","B","C","D","E","F","G","H","I","J","K","L","M",
                  "N","O","P","Q","R","S","T","U","V","W","X","Y","Z">>
Digits == <<"0","1","2","3","4","5","6","7","8","9">>

IsUpper(ch) == \E i \in 1..26 : UpperLetters[i] = ch
IsDigit(ch) == \E i \in 1..10 : Digits[i] = ch

\* String.prototype.charCodeAt for the characters the model uses
CharCodeAt(ch) ==
    IF IsUpper(ch) THEN 64 + (CHOOSE i \in 1..26 : UpperLetters[i] = ch)
    ELSE IF IsDigit(ch) THEN 47 + (CHOOSE i \in 1..10 : Digits[i] = ch)
    ELSE CASE ch = "=" -> 61
           [] ch = "+" -> 43
           [] ch = "-" -> 45
           [] ch = "*" -> 42
           [] ch = ":" -> 58
           [] ch = "!" -> 33
           [] ch = "_" -> 95
           [] ch = "a" -> 97
           [] ch = "#" -> 35
           [] OTHER -> 63

\* String.fromCharCode for the codes 65..90
FromCharCode(code) == UpperLetters[code - 64]

RECURSIVE Pow(_, _)
Pow(b, e) == IF e = 0 THEN 1 ELSE b * Pow(b, e - 1)

\* Number.prototype.toString (base 10) of an integer
RECURSIVE NatToString(_)
NatToString(n) ==
    IF n < 10 THEN <<Digits[n + 1]>>
    ELSE NatToString(n \div 10) \o <<Digits[(n % 10) + 1]>>

NumberToString(n) == IF n < 0 THEN <<"-">> \o NatToString(-n) ELSE NatToString(n)

\* parseInt(text, 10) of a text made of digits only (what \d+ captured)
RECURSIVE ParseInt(_)
ParseInt(text) ==
    IF Len(text) = 0 THEN 0
    ELSE 10 * ParseInt(SubSeq(text, 1, Len(text) - 1))
         + (CharCodeAt(text[Len(text)]) - 48)

------------------------------------------------------------------------------
(* excel-coordinates *)

\* One iteration of the while loop of numberToColumn, on its locals
PositionalNtcBody(index, result) ==
    [index  |-> IF index < 26 THEN -1 ELSE index \div 26,
     result |-> <<FromCharCode(65 + (index % 26))>> \o result]

NtcBody(index, result) ==
    [index  |-> (index \div 26) - 1,
     result |-> <<FromCharCode(65 + (index % 26))>> \o result]

RECURSIVE NtcLoop(_, _)
NtcLoop(index, result) ==
    IF index >= 0
    THEN LET s == NtcBody(index, result) IN NtcLoop(s.index, s.result)
    ELSE result

numberToColumn(c) == NtcLoop(c, <<>>)

\* One iteration of the for loop of columnToNumber: the new `result`
ZeroDigitCtnBody(col, i, result) ==
    LET char == CharCodeAt(col[Len(col) - i]) - 65
    IN  result + char * Pow(26, i)

CtnBody(col, i, result) ==
    LET char == CharCodeAt(col[Len(col) - i]) - 65
    IN  result + (char + 1) * Pow(26, i)

RECURSIVE CtnLoop(_, _, _)
CtnLoop(col, i, result) ==
    IF i < Len(col)
    THEN CtnLoop(col, i + 1, CtnBody(col, i, result))
    ELSE result

columnToNumber(col) == CtnLoop(col, 0, 0) - 1

\* an address whose row is the 0-based index it was given
ZeroBasedCreateCellAddress(r, c) ==
    LET col == numberToColumn(c)
    IN  [col |-> col, row |-> r, display |-> col \o NumberToString(r)]

createCellAddress(r, c) ==
    LET col == numberToColumn(c)
        row == r + 1
    IN  [col |-> col, row |-> row, display |-> col \o NumberToString(row)]

\* The match of /^([A-Z]+)(\d+)$/ : the length of group 1, or 0 when no match
RegexLetterRun(text) ==
    IF \E k \in 1..Len(text) : ~IsUpper(text[k])
    THEN (CHOOSE k \in 1..Len(text) :
             ~IsUpper(text[k]) /\ \A j \in 1..(k - 1) : IsUpper(text[j])) - 1
    ELSE Len(text)

AddressMatches(text) ==
    LET n == RegexLetterRun(text)
    IN  /\ n >= 1
        /\ n < Len(text)
        /\ \A k \in (n + 1)..Len(text) : IsDigit(text[k])

OneBasedParseCellAddress(text) ==
    IF ~AddressMatches(text)
    THEN [threw |-> TRUE, rowIndex |-> 0, colIndex |-> 0]
    ELSE LET n == RegexLetterRun(text)
             colStr == SubSeq(text, 1, n)
             rowStr == SubSeq(text, n + 1, Len(text))
         IN  [threw    |-> FALSE,
              rowIndex |-> ParseInt(rowStr),
              colIndex |-> columnToNumber(colStr)]

parseCellAddress(text) ==
    IF ~AddressMatches(text)
    THEN [threw |-> TRUE, rowIndex |-> 0, colIndex |-> 0]
    ELSE LET n == RegexLetterRun(text)
             colStr == SubSeq(text, 1, n)
             rowStr == SubSeq(text, n + 1, Len(text))
         IN  [threw    |-> FALSE,
              rowIndex |-> ParseInt(rowStr) - 1,
              colIndex |-> columnToNumber(colStr)]

\* rangeStr.split(':'): the parts between the colons, from position k on,
\* `part` being the part read so far
RECURSIVE SplitAtColons(_, _, _)
SplitAtColons(text, k, part) ==
    IF k > Len(text) THEN <<part>>
    ELSE IF text[k] = ":" THEN <<part>> \o SplitAtColons(text, k + 1, <<>>)
    ELSE SplitAtColons(text, k + 1, Append(part, text[k]))

Split(text) == SplitAtColons(text, 1, <<>>)

\* what a call of the codec that can throw returned: `error` is the message
\* of the Error thrown up to its colon, or "none"
Thrown(message) ==
    [error |-> message, startRow |-> 0, startCol |-> 0, endRow |-> 0, endCol |-> 0]

parseRange(rangeStr) ==
    LET parts == Split(rangeStr)
    IN  IF Len(parts) # 2 THEN Thrown("Invalid range")
        ELSE LET start == parseCellAddress(parts[1])
                 end   == parseCellAddress(parts[2])
             IN  IF start.threw \/ end.threw THEN Thrown("Invalid cell address")
                 ELSE [error |-> "none",
                       startRow |-> start.rowIndex, startCol |-> start.colIndex,
                       endRow |-> end.rowIndex, endCol |-> end.colIndex]

createRange(start, end) ==
    [start |-> start, end |-> end,
     display |-> start.display \o <<":">> \o end.display]

\* the cells pushed by the two loops of getCellsInRange, in their order
getCellsInRange(range) ==
    LET startCoords == parseCellAddress(range.start.display)
        endCoords   == parseCellAddress(range.end.display)
        rows   == endCoords.rowIndex - startCoords.rowIndex + 1
        cols   == endCoords.colIndex - startCoords.colIndex + 1
        height == IF rows > 0 THEN rows ELSE 0
        width  == IF cols > 0 THEN cols ELSE 0
    IN  [k \in 1..(height * width) |->
            createCellAddress(startCoords.rowIndex + ((k - 1) \div width),
                              startCoords.colIndex + ((k - 1) % width))]

isCellInRange(cellAddress, range) ==
    LET cellCoords  == parseCellAddress(cellAddress.display)
        startCoords == parseCellAddress(range.start.display)
        endCoords   == parseCellAddress(range.end.display)
    IN  /\ cellCoords.rowIndex >= startCoords.rowIndex
        /\ cellCoords.rowIndex <= endCoords.rowIndex
        /\ cellCoords.colIndex >= startCoords.colIndex
        /\ cellCoords.colIndex <= endCoords.colIndex

\* /^[A-Z]+\d+$/.test(address)
isValidCellAddress(text) == AddressMatches(text)

isValidRange(range) ==
    LET parts == Split(range)
    IN  /\ Len(parts) = 2
        /\ isValidCellAddress(parts[1])
        /\ isValidCellAddress(parts[2])

------------------------------------------------------------------------------
(* Cell values.  A grid cell, a literal handed to the engine and a computed *)
(* value are all one of: null, undefined, a number, a text, an error.       *)

Null      == [t |-> "null",  n |-> 0, s |-> <<>>]
Undefined == [t |-> "undef", n |-> 0, s |-> <<>>]
Num(n)    == [t |-> "num",   n |-> n, s |-> <<>>]
Str(s)    == [t |-> "str",   n |-> 0, s |-> s]
Err(s)    == [t |-> "err",   n |-> 0, s |-> s]
\* a formula cell inside the engine: the formula text it was given
Formula(s) == [t |-> "formula", n |-> 0, s |-> s]

AllDigits(text) == Len(text) >= 1 /\ \A k \in 1..Len(text) : IsDigit(text[k])

\* FormulaEngine.isFormula
isFormula(value) == value.t = "str" /\ Len(value.s) >= 1 /\ value.s[1] = "="

\* values that stand for "none yet"
NoAddress   == [col |-> <<>>, row |-> 0, display |-> <<>>]
NotParsed   == [threw |-> FALSE, rowIndex |-> -1, colIndex |-> -1]
NotComputed == [computed |-> FALSE, value |-> 0]
NoCorners   == <<>>
NoTextOp    == [op |-> "none", result |-> <<>>]

\* the text-level inputs of a state in which no parser or validator runs
ParseIdle ==
    /\ inputText = <<>>
    /\ corners = NoCorners
    /\ textOp = NoTextOp

------------------------------------------------------------------------------
(* The evaluation engine (HyperFormula), as far as the wrapper uses it:     *)
(* named sheets with sparse content, formulas `=X`, `=X+Y`, `=X-Y`, `=X*Y`  *)
(* over cell references and number literals, recomputed on every read.      *)

\* How the engine reads one raw cell content
HfParseContent(raw) ==
    IF raw.t = "undef" THEN Null
    ELSE IF raw.t # "str" THEN raw
    ELSE IF Len(raw.s) = 0 THEN Null
    ELSE IF raw.s[1] = "=" THEN Formula(raw.s)
    ELSE IF AllDigits(raw.s) THEN Num(ParseInt(raw.s))
    ELSE raw

\* hf.setSheetContent: the whole content of one sheet from a 2-D array
HfSheetContent(data) ==
    LET cells == {p \in UNION {{<<r, c>> : c \in 0..(Len(data[r + 1]) - 1)} :
                                    r \in 0..(Len(data) - 1)} :
                      HfParseContent(data[p[1] + 1][p[2] + 1]) # Null}
    IN  [p \in cells |-> HfParseContent(data[p[1] + 1][p[2] + 1])]

\* an engine whose formula cells keep their formula when a literal is written
KeepFormulaHfSetCell(content, row, col, raw) ==
    LET v == HfParseContent(raw)
        p == <<row, col>>
    IN  IF p \in DOMAIN content /\ content[p].t = "formula" /\ v.t # "formula"
        THEN content
        ELSE IF v = Null
        THEN [q \in (DOMAIN content) \ {p} |-> content[q]]
        ELSE [q \in (DOMAIN content) \cup {p} |-> IF q = p THEN v ELSE content[q]]

\* hf.setCellContents on one cell
HfSetCell(content, row, col, raw) ==
    LET v == HfParseContent(raw)
        p == <<row, col>>
    IN  IF v = Null
        THEN [q \in (DOMAIN content) \ {p} |-> content[q]]
        ELSE [q \in (DOMAIN content) \cup {p} |-> IF q = p THEN v ELSE content[q]]

IsOperator(ch) == ch \in {"+", "-", "*"}

\* index of the first operator character of a formula body, 0 if none
OperatorAt(body) ==
    IF \E k \in 1..Len(body) : IsOperator(body[k])
    THEN CHOOSE k \in 1..Len(body) :
             IsOperator(body[k]) /\ \A j \in 1..(k - 1) : ~IsOperator(body[j])
    ELSE 0

ApplyOperator(op, a, b) ==
    IF a.t = "err" THEN a
    ELSE IF b.t = "err" THEN b
    ELSE IF op = "+" THEN Num(a.n + b.n)
    ELSE IF op = "-" THEN Num(a.n - b.n)
    ELSE Num(a.n * b.n)

RECURSIVE HfEval(_, _, _)
RECURSIVE HfOperand(_, _, _)

\* value of one operand: a cell reference or a number literal
HfOperand(content, tok, visited) ==
    IF AddressMatches(tok)
    THEN LET a == parseCellAddress(tok)
             p == <<a.rowIndex, a.colIndex>>
         IN  IF a.rowIndex < 0 THEN Err(<<"#","N","A","M","E">>)
             ELSE IF p \in visited THEN Err(<<"#","C","Y","C","L","E">>)
             ELSE IF p \notin DOMAIN content THEN Num(0)
             ELSE IF content[p].t = "formula"
                  THEN HfEval(content, p, visited \cup {p})
             ELSE IF content[p].t = "num" THEN content[p]
             ELSE IF content[p].t = "err" THEN content[p]
             ELSE Err(<<"#","V","A","L","U","E">>)
    ELSE IF AllDigits(tok) THEN Num(ParseInt(tok))
    ELSE Err(<<"#","N","A","M","E">>)

\* computed value of the formula cell at p
HfEval(content, p, visited) ==
    LET body == Tail(content[p].s)
        k    == OperatorAt(body)
    IN  IF k = 0 THEN HfOperand(content, body, visited)
        ELSE ApplyOperator(body[k],
                           HfOperand(content, SubSeq(body, 1, k - 1), visited),
                           HfOperand(content, SubSeq(body, k + 1, Len(body)), visited))

\* hf.getCellValue
HfCellValue(content, row, col) ==
    LET p == <<row, col>>
    IN  IF p \notin DOMAIN content THEN Null
        ELSE IF content[p].t = "formula" THEN HfEval(content, p, {p})
        ELSE content[p]

\* hf.getCellFormula: the formula text of a formula cell, else undefined
HfCellFormula(content, row, col) ==
    LET p == <<row, col>>
    IN  IF p \in DOMAIN content /\ content[p].t = "formula"
        THEN Str(content[p].s)
        ELSE Undefined

\* hf.getSheetDimensions
HfSheetDimensions(content) ==
    [width  |-> IF DOMAIN content = {} THEN 0
                ELSE 1 + (CHOOSE c \in {p[2] : p \in DOMAIN content} :
                             \A p \in DOMAIN content : p[2] <= c),
     height |-> IF DOMAIN content = {} THEN 0
                ELSE 1 + (CHOOSE r \in {p[1] : p \in DOMAIN content} :
                             \A p \in DOMAIN content : p[1] <= r)]

------------------------------------------------------------------------------
(* Column name resolver (FormulaEngine.preprocessFormula)                   *)

IsWordChar(ch) == IsUpper(ch) \/ IsDigit(ch) \/ ch = "_" \/ ch = "a"

\* \b of a regular expression, between text[i - 1] and text[i]
WordBoundary(text, i) ==
    LET before == i > 1 /\ i - 1 <= Len(text) /\ IsWordChar(text[i - 1])
        after  == i >= 1 /\ i <= Len(text) /\ IsWordChar(text[i])
    IN  before # after

MatchesAt(text, i, name) ==
    /\ Len(name) >= 1
    /\ i + Len(name) - 1 <= Len(text)
    /\ SubSeq(text, i, i + Len(name) - 1) = name
    /\ WordBoundary(text, i)
    /\ WordBoundary(text, i + Len(name))

\* text.replace(/\bname\b/g, by)
RECURSIVE ReplaceAll(_, _, _, _)
ReplaceAll(text, i, name, by) ==
    IF i > Len(text) THEN <<>>
    ELSE IF MatchesAt(text, i, name)
         THEN by \o ReplaceAll(text, i + Len(name), name, by)
         ELSE <<text[i]>> \o ReplaceAll(text, i + 1, name, by)

\* positions 1..Len(names) ordered by descending length of the name (stable)
SchemaOrder(names) == [k \in 1..Len(names) |-> k]

LongestFirstOrder(names) ==
    LET n == Len(names)
        Before(i, j) == \/ Len(names[i]) > Len(names[j])
                        \/ Len(names[i]) = Len(names[j]) /\ i < j
        Rank(i) == 1 + Cardinality({j \in 1..n : Before(j, i)})
    IN  [k \in 1..n |-> CHOOSE i \in 1..n : Rank(i) = k]

\* the column a candidate stands for: its index in backingColumnNames
PositionInOrderColumnOf(names, order, k) == k - 1

ColumnOf(names, order, k) == order[k] - 1

RECURSIVE ResolvePasses(_, _, _, _, _)
ResolvePasses(text, names, order, k, row) ==
    IF k > Len(order) THEN text
    ELSE LET name == names[order[k]]
             ref  == numberToColumn(ColumnOf(names, order, k))
                     \o NumberToString(row + 1)
         IN  ResolvePasses(ReplaceAll(text, 1, name, ref), names, order, k + 1, row)

preprocessFormula(formula, columnNames, row) ==
    ResolvePasses(formula, columnNames, LongestFirstOrder(columnNames), 1, row)

------------------------------------------------------------------------------
(* FormulaEngine: the singleton wrapper.  state = [names, content, map]:    *)
(*   names   : the engine's sheet names, internal id i at position i + 1    *)
(*   content : the engine's sheet contents, same positions                  *)
(*   map     : sheetMap, sheetId -> internal id                             *)

EmptyEngine == [names |-> <<>>, content |-> <<>>, map |-> <<>>]

SheetName(sheetId) == <<"Sheet_", sheetId>>

doesSheetExist(E, name) == \E i \in 1..Len(E.names) : E.names[i] = name
getSheetId(E, name) == (CHOOSE i \in 1..Len(E.names) : E.names[i] = name) - 1

MapHas(E, sheetId) == \E i \in 1..Len(E.map) : E.map[i].sheetId = sheetId
MapGet(E, sheetId) ==
    (CHOOSE e \in {E.map[i] : i \in 1..Len(E.map)} : e.sheetId = sheetId).internalId
MapSet(map, sheetId, internalId) ==
    IF \E i \in 1..Len(map) : map[i].sheetId = sheetId
    THEN [i \in 1..Len(map) |->
             IF map[i].sheetId = sheetId
             THEN [sheetId |-> sheetId, internalId |-> internalId] ELSE map[i]]
    ELSE Append(map, [sheetId |-> sheetId, internalId |-> internalId])

\* A caller's `data` is a sequence of rows and a row a sequence of cells.  A
\* row that is not an array (null, an object, a number) is written
\* NonArrayRow, and a `data` that is not an array NonArrayData.
NonArrayRow  == <<[t |-> "nonarray", n |-> 0, s |-> <<>>]>>
NonArrayData == <<<<[t |-> "nonarraydata", n |-> 0, s |-> <<>>]>>>>

IsArrayRow(row)   == row # NonArrayRow
IsArrayData(data) == data # NonArrayData

\* safeData: Array.isArray(data) ? data.map(row => Array.isArray(row)
\*     ? row.map(cell => cell === undefined ? null : cell) : []) : [[]]
SafeData(data) ==
    IF ~IsArrayData(data) THEN << <<>> >>
    ELSE [r \in 1..Len(data) |->
            IF ~IsArrayRow(data[r]) THEN <<>>
            ELSE [c \in 1..Len(data[r]) |->
                    IF data[r][c] = Undefined THEN Null ELSE data[r][c]]]

SharedSheetInitializeSheet(E, sheetId, data) ==
    LET exists == Len(E.names) >= 1
        names1 == IF exists THEN E.names ELSE Append(E.names, SheetName(sheetId))
        cont1  == IF exists THEN E.content ELSE Append(E.content, <<>>)
    IN  [names   |-> names1,
         content |-> [i \in 1..Len(cont1) |->
                         IF i = 1 THEN HfSheetContent(SafeData(data))
                         ELSE cont1[i]],
         map     |-> MapSet(E.map, sheetId, 0)]

\* an initializeSheet that writes the new cells over the earlier content
MergingInitializeSheet(E, sheetId, data) ==
    LET sheetName  == SheetName(sheetId)
        exists     == doesSheetExist(E, sheetName)
        names1     == IF exists THEN E.names ELSE Append(E.names, sheetName)
        cont1      == IF exists THEN E.content ELSE Append(E.content, <<>>)
        internalId == (CHOOSE i \in 1..Len(names1) : names1[i] = sheetName) - 1
        new        == HfSheetContent(SafeData(data))
    IN  [names   |-> names1,
         content |-> [i \in 1..Len(cont1) |->
                         IF i = internalId + 1
                         THEN [q \in (DOMAIN cont1[i]) \cup (DOMAIN new) |->
                                  IF q \in DOMAIN new THEN new[q] ELSE cont1[i][q]]
                         ELSE cont1[i]],
         map     |-> MapSet(E.map, sheetId, internalId)]

initializeSheet(E, sheetId, data) ==
    LET sheetName  == SheetName(sheetId)
        exists     == doesSheetExist(E, sheetName)
        names1     == IF exists THEN E.names ELSE Append(E.names, sheetName)
        cont1      == IF exists THEN E.content ELSE Append(E.content, <<>>)
        internalId == (CHOOSE i \in 1..Len(names1) : names1[i] = sheetName) - 1
    IN  [names   |-> names1,
         content |-> [i \in 1..Len(cont1) |->
                         IF i = internalId + 1 THEN HfSheetContent(SafeData(data))
                         ELSE cont1[i]],
         map     |-> MapSet(E.map, sheetId, internalId)]

setCellValue(E, sheetId, row, col, content, columnNames) ==
    IF ~MapHas(E, sheetId) THEN E
    ELSE LET internalId == MapGet(E, sheetId)
             raw == IF isFormula(content)
                    THEN Str(preprocessFormula(content.s, columnNames, row))
                    ELSE content
         IN  [E EXCEPT !.content[internalId + 1] = HfSetCell(@, row, col, raw)]

getCellValue(E, sheetId, row, col) ==
    IF ~MapHas(E, sheetId) THEN Null
    ELSE HfCellValue(E.content[MapGet(E, sheetId) + 1], row, col)

getFormula(E, sheetId, row, col) ==
    IF ~MapHas(E, sheetId) THEN Null
    ELSE LET f == HfCellFormula(E.content[MapGet(E, sheetId) + 1], row, col)
         IN  IF f = Undefined THEN Null ELSE f

\* a scan that stops one column short of the used range
RECURSIVE ShortScanFormulas(_, _, _, _, _)
ShortScanFormulas(E, sheetId, dims, r, c) ==
    IF r >= dims.height THEN <<>>
    ELSE IF c >= dims.width - 1 THEN ShortScanFormulas(E, sheetId, dims, r + 1, 0)
    ELSE LET f == HfCellFormula(E.content[MapGet(E, sheetId) + 1], r, c)
             rest == ShortScanFormulas(E, sheetId, dims, r, c + 1)
         IN  IF f # Undefined
             THEN <<[row |-> r, col |-> c, formula |-> <<"=">> \o f.s,
                     value |-> getCellValue(E, sheetId, r, c),
                     sheetId |-> sheetId]>> \o rest
             ELSE rest

\* FormulaEngine.getAllFormulas: the scan of the used range, row by row
RECURSIVE ScanFormulas(_, _, _, _, _)
ScanFormulas(E, sheetId, dims, r, c) ==
    IF r >= dims.height THEN <<>>
    ELSE IF c >= dims.width THEN ScanFormulas(E, sheetId, dims, r + 1, 0)
    ELSE LET f == HfCellFormula(E.content[MapGet(E, sheetId) + 1], r, c)
             rest == ScanFormulas(E, sheetId, dims, r, c + 1)
         IN  IF f # Undefined
             THEN <<[row |-> r, col |-> c, formula |-> <<"=">> \o f.s,
                     value |-> getCellValue(E, sheetId, r, c),
                     sheetId |-> sheetId]>> \o rest
             ELSE rest

getAllFormulas(E, sheetId) ==
    IF ~MapHas(E, sheetId) THEN <<>>
    ELSE ScanFormulas(E, sheetId,
                      HfSheetDimensions(E.content[MapGet(E, sheetId) + 1]), 0, 0)

------------------------------------------------------------------------------
(* JavaScript conversions the handlers apply to cell values *)

\* truthiness of a value: `v ? a : b` and `v || w`
Truthy(v) ==
    IF v.t = "num" THEN v.n # 0
    ELSE IF v.t = "str" THEN Len(v.s) > 0
    ELSE v.t = "err"

\* String(v)
ToText(v) ==
    IF v.t = "num" THEN NumberToString(v.n)
    ELSE IF v.t = "str" THEN v.s
    ELSE IF v.t = "null" THEN <<"n", "u", "l", "l">>
    ELSE IF v.t = "undef" THEN <<"u", "n", "d", "e", "f", "i", "n", "e", "d">>
    ELSE <<"[object Object]">>

\* data[rowIndex]?.[colIndex]
CellAt(data, r, c) ==
    IF r >= 0 /\ r < Len(data) /\ c >= 0 /\ c < Len(data[r + 1])
    THEN data[r + 1][c + 1]
    ELSE Undefined

\* cellValue ? String(cellValue) : ''
EditSeed(data, r, c) ==
    IF Truthy(CellAt(data, r, c)) THEN ToText(CellAt(data, r, c)) ELSE <<>>

Min(a, b) == IF a < b THEN a ELSE b
Max(a, b) == IF a > b THEN a ELSE b

------------------------------------------------------------------------------
(* App, gridStore and ExcelGrid: the values of their state                  *)

NoSheet    == "none"
NoSchema   == [loaded |-> FALSE, columns |-> <<>>]
NotEditing == [active |-> FALSE, address |-> NoAddress, value |-> <<>>]
NoEvent    == [type |-> "none", address |-> <<>>, value |-> <<>>,
               prior |-> <<>>, id |-> 0]
NoCell     == [row |-> -1, col |-> -1]
NoFill     == [count |-> 0, source |-> NoCell, end |-> NoCell, calls |-> <<>>,
               data |-> <<>>, sent |-> 0]

\* the drag state of a grid nobody is dragging in
FillIdle ==
    /\ gridSelection = NoCell
    /\ isDragging = FALSE
    /\ dragStart = NoCell
    /\ dragEnd = NoCell
    /\ lastFill = NoFill

\* the formula bar while nobody edits in it: the effect on [formula, isEditing]
\* keeps editingFormula equal to the formula shown, so the model holds the
\* buffer only while isEditing
BarClosed == [isEditing |-> FALSE, editingFormula |-> <<>>]

\* a closed formula bar and an empty metadata store
PanelIdle ==
    /\ formulaBar = BarClosed
    /\ formulas = <<>>

\* no request was sent to the database worker
WorkerIdle ==
    /\ pendingRequests = {}
    /\ requests = <<>>

\* the App before its sheets are fetched, and no worker request
ShellIdle ==
    /\ sheets = <<>>
    /\ deletes = <<>>
    /\ WorkerIdle

\* the sheet list once the App has fetched its sheets
SheetList == <<"s1", "s2">>

\* the App with its sheets fetched and no delete requested
ShellLoaded ==
    /\ sheets = SheetList
    /\ deletes = <<>>
    /\ WorkerIdle

\* the part of a state that belongs to the App when only a library runs
AppIdle ==
    /\ activeSheetId = NoSheet
    /\ schema = NoSchema
    /\ gridData = <<>>
    /\ isLoading = FALSE
    /\ selectedCell = NoAddress
    /\ editingCell = NotEditing
    /\ focus = "body"
    /\ currentFormula = <<>>
    /\ tables = <<>>
    /\ loads = <<>>
    /\ updates = <<>>
    /\ lastEvent = NoEvent
    /\ FillIdle
    /\ PanelIdle
    /\ ShellIdle

------------------------------------------------------------------------------
(* The engine specification: callers initialize sheets and set cells.       *)

NoFormula == [left |-> <<>>, op |-> "-", right |-> <<>>]
NoOp == [op |-> "none", sheetId |-> "", row |-> 0, col |-> 0, content |-> Null]

SheetIds == {"s1", "s2"}

\* the rows of the resolver test and a second table
TestData  == <<<<Num(10), Num(20), Num(30)>>, <<Num(100), Num(200), Num(300)>>>>
OtherData == <<<<Num(1), Num(2), Num(3)>>, <<Num(4), Undefined, Num(6)>>>>
DataInputs == {TestData, OtherData}

\* schema orders: the test's names in every order, and names that overlap
ColumnNameLists ==
    { <<<<"A">>, <<"B","B">>, <<"C","C","C">>>>,
      <<<<"A">>, <<"C","C","C">>, <<"B","B">>>>,
      <<<<"B","B">>, <<"A">>, <<"C","C","C">>>>,
      <<<<"B","B">>, <<"C","C","C">>, <<"A">>>>,
      <<<<"C","C","C">>, <<"A">>, <<"B","B">>>>,
      <<<<"C","C","C">>, <<"B","B">>, <<"A">>>>,
      <<<<"P">>, <<"U"," ","P">>>>,
      <<<<"U"," ","P">>, <<"P">>>>,
      <<<<"A">>, <<"A","B">>>> }

\* the formula callers enter: <shortest name> - <longest name>, which is the
\* test's =A-CCC for the test's columns
ShortestName(names) ==
    names[CHOOSE i \in 1..Len(names) : \A j \in 1..Len(names) : Len(names[i]) <= Len(names[j])]
LongestName(names) ==
    names[CHOOSE i \in 1..Len(names) : \A j \in 1..Len(names) : Len(names[i]) >= Len(names[j])]

FormulaInputs(names) ==
    {[left |-> ShortestName(names), op |-> "-", right |-> LongestName(names)]}

FormulaText(f) == <<"=">> \o f.left \o <<f.op>> \o f.right

\* the cells callers write: the test's cell right of the data, and a data cell
Targets == {<<0, 3>>, <<0, 0>>}

Contents == {Str(FormulaText(formulaInput)), Str(<<"5">>)}

EngineInit ==
    /\ engine = EmptyEngine
    /\ backingColumnNames \in ColumnNameLists
    /\ formulaInput \in FormulaInputs(backingColumnNames)
    /\ lastOp = NoOp
    /\ colIndex = 0 /\ rowIndex = 0 /\ column = <<"A">>
    /\ ntcIndex = 0 /\ ntcResult = <<>> /\ ntcSteps = 0
    /\ address = [col |-> <<>>, row |-> 0, display |-> <<>>]
    /\ parsed = [threw |-> FALSE, rowIndex |-> -1, colIndex |-> -1]
    /\ ctnResult = [computed |-> FALSE, value |-> 0]
    /\ ParseIdle
    /\ AppIdle

EngineInitializeSheet(sheetId, data) ==
    /\ engine' = initializeSheet(engine, sheetId, data)
    /\ lastOp' = [op |-> "initializeSheet", sheetId |-> sheetId,
                  row |-> 0, col |-> 0, content |-> Null]
    /\ UNCHANGED <<backingColumnNames, formulaInput>>
    /\ UNCHANGED <<codecVars, appVars>>

EngineSetCellValue(sheetId, row, col, content) ==
    /\ engine' = setCellValue(engine, sheetId, row, col, content, backingColumnNames)
    /\ lastOp' = [op |-> "setCellValue", sheetId |-> sheetId,
                  row |-> row, col |-> col, content |-> content]
    /\ UNCHANGED <<backingColumnNames, formulaInput>>
    /\ UNCHANGED <<codecVars, appVars>>

EngineNext ==
    \/ \E sheetId \in SheetIds, data \in DataInputs :
          EngineInitializeSheet(sheetId, data)
    \/ \E sheetId \in SheetIds, t \in Targets, content \in Contents :
          EngineSetCellValue(sheetId, t[1], t[2], content)

SpecEngine == EngineInit /\ [][EngineNext]_vars

------------------------------------------------------------------------------
(* Claims on the engine *)

IndexOf(names, name) == (CHOOSE i \in 1..Len(names) : names[i] = name) - 1

\* the engine content of the sheet the last call named
LastSheetContent == engine.content[MapGet(engine, lastOp.sheetId) + 1]

\* the last call entered the formula on an initialized sheet
FormulaWasSet ==
    /\ lastOp.op = "setCellValue"
    /\ lastOp.content = Str(FormulaText(formulaInput))
    /\ MapHas(engine, lastOp.sheetId)

HoldsNumber(content, row, col) ==
    <<row, col>> \in DOMAIN content /\ content[<<row, col>>].t = "num"

\* C1: every bare column-name token of a formula given to setCellValue
\* resolves to the column at that name's index in backingColumnNames, whatever
\* the schema order of the names: the cell's value is the difference of the two
\* named columns' values in the formula's row; with columns A, BB, CCC holding
\* 10, 20, 30 the formula =A-CCC gives -20.
C1_TokensResolveBySchemaIndex ==
    FormulaWasSet =>
        LET i1 == IndexOf(backingColumnNames, formulaInput.left)
            i2 == IndexOf(backingColumnNames, formulaInput.right)
            c  == LastSheetContent
        IN  /\ (HoldsNumber(c, lastOp.row, i1) /\ HoldsNumber(c, lastOp.row, i2)) =>
                  getCellValue(engine, lastOp.sheetId, lastOp.row, lastOp.col)
                    = Num(c[<<lastOp.row, i1>>].n - c[<<lastOp.row, i2>>].n)
            /\ ( /\ backingColumnNames = <<<<"A">>, <<"B","B">>, <<"C","C","C">>>>
                 /\ formulaInput.left = <<"A">>
                 /\ formulaInput.right = <<"C","C","C">>
                 /\ c[<<0, 0>>] = Num(10)
                 /\ <<0, 2>> \in DOMAIN c /\ c[<<0, 2>>] = Num(30) ) =>
                  getCellValue(engine, lastOp.sheetId, lastOp.row, lastOp.col) = Num(-20)

\* C1 witness: the resolver test: =A-CCC entered at row 0, column 3 of the
\* sheet holding 10, 20, 30, and evaluated to -20.
C1_Witness ==
    /\ FormulaWasSet
    /\ backingColumnNames = <<<<"A">>, <<"B","B">>, <<"C","C","C">>>>
    /\ formulaInput.left = <<"A">>
    /\ formulaInput.right = <<"C","C","C">>
    /\ lastOp.row = 0 /\ lastOp.col = 3
    /\ LastSheetContent[<<0, 0>>] = Num(10)
    /\ getCellValue(engine, lastOp.sheetId, 0, 3) = Num(-20)

IsSubstring(short, long) ==
    \E i \in 1..Len(long) :
        i + Len(short) - 1 <= Len(long) /\ SubSeq(long, i, i + Len(short) - 1) = short

NamesOverlap(names) ==
    \E i, j \in 1..Len(names) : i # j /\ IsSubstring(names[i], names[j])

\* the reference a column index and a row index stand for, e.g. (1, 0) -> B1
CellRef(col, row) == <<UpperLetters[col + 1]>> \o NumberToString(row + 1)

\* C2: when one column name is a prefix or substring of another, the longer
\* name is replaced as a whole by the reference of its own column and the
\* shorter name is never substituted inside it: the formula handed to the
\* engine is exactly <ref of left column> - <ref of right column>.
C2_LongestFirst ==
    (FormulaWasSet /\ NamesOverlap(backingColumnNames)) =>
        getFormula(engine, lastOp.sheetId, lastOp.row, lastOp.col)
          = Str(<<"=">>
                \o CellRef(IndexOf(backingColumnNames, formulaInput.left), lastOp.row)
                \o <<formulaInput.op>>
                \o CellRef(IndexOf(backingColumnNames, formulaInput.right), lastOp.row))

\* C2 witness: with columns P, "U P" the formula =P-U P was entered and the
\* engine holds =A1-B1.
C2_Witness ==
    /\ FormulaWasSet
    /\ backingColumnNames = <<<<"P">>, <<"U"," ","P">>>>
    /\ getFormula(engine, lastOp.sheetId, lastOp.row, lastOp.col)
         = Str(<<"=","A","1","-","B","1">>)

\* the cells a caller can ask about
ProbeCells == {<<r, c>> : r \in 0..1, c \in 0..3}

------------------------------------------------------------------------------
(* The codec specification: inputs are drawn by Init, the actions apply   *)
(* the functions.                                                          *)

\* the engine part of a state in which only the codec runs
EngineIdle ==
    /\ engine = EmptyEngine
    /\ backingColumnNames = <<>>
    /\ formulaInput = NoFormula
    /\ lastOp = NoOp


RECURSIVE LetterStrings(_)
LetterStrings(n) ==
    IF n = 0 THEN {<<>>}
    ELSE LET shorter == LetterStrings(n - 1)
         IN  shorter \cup {<<UpperLetters[i]>> \o s :
                             i \in 1..26, s \in {t \in shorter : Len(t) = n - 1}}

ColumnInputs == LetterStrings(MaxColumnLen) \ {<<>>}

CodecInit ==
    /\ \/ /\ colIndex \in 0..MaxColIndex
          /\ rowIndex \in 0..MaxRowIndex
          /\ column = <<"A">>
       \/ /\ colIndex = 0
          /\ rowIndex = 0
          /\ column \in ColumnInputs
    /\ ntcIndex = colIndex
    /\ ntcResult = <<>>
    /\ ntcSteps = 0
    /\ address = NoAddress
    /\ parsed = NotParsed
    /\ ctnResult = NotComputed
    /\ ParseIdle
    /\ EngineIdle
    /\ AppIdle

\* numberToColumn: one pass through the body of the while loop
NumberToColumnStep ==
    /\ ntcIndex >= 0
    /\ LET s == NtcBody(ntcIndex, ntcResult)
       IN  /\ ntcIndex' = s.index
           /\ ntcResult' = s.result
    /\ ntcSteps' = ntcSteps + 1
    /\ UNCHANGED <<colIndex, rowIndex, column, address, parsed, ctnResult>>
    /\ UNCHANGED <<parseVars, engineVars, appVars>>

\* createCellAddress(rowIndex, colIndex)
CreateCellAddress ==
    /\ address = NoAddress
    /\ address' = createCellAddress(rowIndex, colIndex)
    /\ UNCHANGED <<colIndex, rowIndex, column, ntcIndex, ntcResult, ntcSteps,
                   parsed, ctnResult>>
    /\ UNCHANGED <<parseVars, engineVars, appVars>>

\* parseCellAddress(address.display)
ParseCellAddress ==
    /\ address # NoAddress
    /\ parsed = NotParsed
    /\ parsed' = parseCellAddress(address.display)
    /\ UNCHANGED <<colIndex, rowIndex, column, ntcIndex, ntcResult, ntcSteps,
                   address, ctnResult>>
    /\ UNCHANGED <<parseVars, engineVars, appVars>>

\* columnToNumber(column)
ColumnToNumber ==
    /\ ctnResult = NotComputed
    /\ ctnResult' = [computed |-> TRUE, value |-> columnToNumber(column)]
    /\ UNCHANGED <<colIndex, rowIndex, column, ntcIndex, ntcResult, ntcSteps,
                   address, parsed>>
    /\ UNCHANGED <<parseVars, engineVars, appVars>>

CodecNext ==
    \/ NumberToColumnStep
    \/ CreateCellAddress
    \/ ParseCellAddress
    \/ ColumnToNumber

SpecCodec == CodecInit /\ [][CodecNext]_vars

------------------------------------------------------------------------------
(* Claims on the codec *)

\* C4: parseCellAddress(createCellAddress(r, c).display) returns exactly
\* rowIndex = r and colIndex = c, for every r, c >= 0 of the bounded input set.
C4_AddressRoundTrip ==
    parsed # NotParsed =>
        /\ ~parsed.threw
        /\ parsed.rowIndex = rowIndex
        /\ parsed.colIndex = colIndex

\* C4 witness: a round trip was made past the ZZ -> AAA boundary with a
\* two-digit row number.
C4_Witness ==
    /\ parsed # NotParsed
    /\ colIndex = 702
    /\ rowIndex = 10
    /\ address.display = <<"A","A","A","1","1">>

\* The value of a string of letters read as a bijective base-26 numeral
\* (digits A=1 .. Z=26, most significant first), minus one.
RECURSIVE BijectiveValue(_)
BijectiveValue(s) ==
    IF Len(s) = 0 THEN 0
    ELSE 26 * BijectiveValue(SubSeq(s, 1, Len(s) - 1))
         + (CHOOSE i \in 1..26 : UpperLetters[i] = s[Len(s)])

IsBijectiveNumeral(s, n) ==
    /\ Len(s) >= 1
    /\ \A k \in 1..Len(s) : IsUpper(s[k])
    /\ BijectiveValue(s) - 1 = n

\* C5: numberToColumn(index) is the bijective base-26 numeral of index
\* (0 -> A, 25 -> Z, 26 -> AA, 701 -> ZZ, 702 -> AAA), and its loop ends:
\* every iteration strictly decreases `index`, which never goes below -1.
C5_NumberToColumn ==
    /\ [](/\ ntcIndex >= -1
          /\ ntcIndex < 0 => IsBijectiveNumeral(ntcResult, colIndex)
          /\ (ntcIndex < 0 /\ colIndex = 0) => ntcResult = <<"A">>
          /\ (ntcIndex < 0 /\ colIndex = 25) => ntcResult = <<"Z">>
          /\ (ntcIndex < 0 /\ colIndex = 26) => ntcResult = <<"A","A">>
          /\ (ntcIndex < 0 /\ colIndex = 701) => ntcResult = <<"Z","Z">>
          /\ (ntcIndex < 0 /\ colIndex = 702) => ntcResult = <<"A","A","A">>)
    /\ [][ntcIndex' < ntcIndex]_ntcIndex

\* C5 witness: the loop has finished on index 702 after three iterations.
C5_Witness ==
    /\ colIndex = 702
    /\ ntcIndex < 0
    /\ ntcSteps = 3

\* C6: columnToNumber is the exact inverse of numberToColumn, both ways:
\* numberToColumn(columnToNumber(L)) = L for every non-empty L over A-Z, and
\* columnToNumber(numberToColumn(i)) = i for every i >= 0.
C6_ColumnInverse ==
    /\ ctnResult.computed =>
          /\ ctnResult.value >= 0
          /\ numberToColumn(ctnResult.value) = column
    /\ ntcIndex < 0 => columnToNumber(ntcResult) = colIndex

\* C6 witness: both directions were computed on two-letter columns.
C6_Witness ==
    \/ /\ ctnResult.computed
       /\ column = <<"Z","Z">>
       /\ ctnResult.value = 701
    \/ /\ ntcIndex < 0
       /\ colIndex = 27
       /\ ntcResult = <<"A","B">>

------------------------------------------------------------------------------
(* The application: App.handleCellEdit, App.loadSheetData, the ExcelGrid    *)
(* handlers, and the backing store behind the HTTP client.                  *)

\* bounds of the runs
MaxGridCommits == 1   \* commits made through the grid in SpecGrid
MaxCommits == 2       \* handleCellEdit calls in SpecLoad
MaxLoads == 1         \* times the load effect runs again in SpecLoad

\* the schema of every table: the primary key column first
AppColumnNames == << <<"A">>, <<"B", "B">> >>

\* the rows of the tables when the application starts
SheetRows(sheetId) ==
    IF sheetId = "s1"
    THEN << <<Num(1), Num(0)>>, <<Num(2), Num(7)>> >>
    ELSE << <<Num(1), Num(3)>> >>

\* what the variables outside the application hold while it runs
editFrame == <<codecVars, backingColumnNames, formulaInput, lastOp, fillVars,
               formulaBar, tabVars, workerVars>>

\* what is outside an App handler that adds no formula metadata
appFrame == <<editFrame, formulas>>

Event(type, addr, value, prior, id) ==
    [type |-> type, address |-> addr, value |-> value, prior |-> prior, id |-> id]

\* ---- App.handleCellEdit, up to its first await -------------------------

\* newValue.startsWith('=')
StartsWithEquals(text) == Len(text) >= 1 /\ text[1] = "="

\* valueToSend: newValue, or for a formula `calculatedValue || newValue`
ValueToSend(calculatedValue, newValue) ==
    IF StartsWithEquals(newValue) /\ Truthy(calculatedValue)
    THEN calculatedValue
    ELSE Str(newValue)

\* setGridData(prevData => ...): the cell takes the value when its row exists
SetGridCell(data, row, col, value) ==
    IF row < 0 \/ row >= Len(data) THEN data
    ELSE [data EXCEPT ![row + 1] =
             [c \in 1..Max(Len(@), col + 1) |->
                 IF c = col + 1 THEN value
                 ELSE IF c <= Len(@) THEN @[c] ELSE Undefined]]

\* updatePayload, and the request sent with it
UpdatePayload(sheetId, pkValue, columnName, value, newValue) ==
    [sheetId |-> sheetId, rowId |-> pkValue, column |-> columnName,
     value |-> value,
     formula |-> IF StartsWithEquals(newValue) THEN Str(newValue) ELSE Undefined,
     state |-> "sent"]

\* formulaMetadataStore.addFormula: the metadata joins the end of the list
\* under a fresh id (Date.now() and a random suffix in the code, the position
\* here; no entry is ever removed)
addFormula(store, metadata) ==
    Append(store, [id |-> Len(store) + 1,
                   sheetId |-> metadata.sheetId,
                   cellAddress |-> metadata.cellAddress,
                   formulaType |-> metadata.formulaType,
                   formula |-> metadata.formula])

\* addFormula for each metadata of a list, in order
RECURSIVE AddFormulas(_, _)
AddFormulas(store, list) ==
    IF list = <<>> THEN store
    ELSE AddFormulas(addFormula(store, Head(list)), Tail(list))

\* the metadata handleCellEdit hands to addFormula when the text is a formula;
\* cellAddress is the text parseCellAddress read (row, col) from, which every
\* caller takes from the display of createCellAddress
CellFormulaMetadata(sheetId, row, col, newValue) ==
    IF StartsWithEquals(newValue)
    THEN <<[sheetId |-> sheetId,
            cellAddress |-> createCellAddress(row, col).display,
            formulaType |-> "cell",
            formula |-> newValue]>>
    ELSE <<>>

\* a handler that writes the registry and the grid and leaves its request
\* for a later turn
DeferredRequestCellEditResult(E1, sch, sheetId, data, sent, row, col, newValue, value) ==
    [engine   |-> E1,
     gridData |-> SetGridCell(data, row, col, value),
     updates  |-> sent,
     added    |-> CellFormulaMetadata(sheetId, row, col, newValue)]

\* the try block of handleCellEdit once the registry holds the new content:
\* E1 is the registry after setCellValue, value is valueToSend
CellEditResult(E1, sch, sheetId, data, sent, row, col, newValue, value) ==
    [engine   |-> E1,
     gridData |-> SetGridCell(data, row, col, value),
     updates  |-> Append(sent, UpdatePayload(sheetId, CellAt(data, row, 0),
                                             sch.columns[col + 1], value, newValue)),
     added    |-> CellFormulaMetadata(sheetId, row, col, newValue)]

\* the try block of handleCellEdit from getCellValue on
CellEditTry(E1, sch, sheetId, data, sent, row, col, newValue) ==
    CellEditResult(E1, sch, sheetId, data, sent, row, col, newValue,
                   ValueToSend(getCellValue(E1, sheetId, row, col), newValue))

\* handleCellEdit after parseCellAddress.  schema.columns[colIndex].name and
\* gridData[rowIndex][0] throw outside the try block when the index is out
\* of range, and the handler ends there.
CellEditAt(E, sch, sheetId, data, sent, coords, newValue) ==
    IF coords.threw THEN [engine |-> E, gridData |-> data, updates |-> sent, added |-> <<>>]
    ELSE IF coords.colIndex >= Len(sch.columns)
    THEN [engine |-> E, gridData |-> data, updates |-> sent, added |-> <<>>]
    ELSE IF coords.rowIndex < 0 \/ coords.rowIndex >= Len(data)
    THEN [engine |-> E, gridData |-> data, updates |-> sent, added |-> <<>>]
    ELSE CellEditTry(setCellValue(E, sheetId, coords.rowIndex, coords.colIndex,
                                  Str(newValue), sch.columns),
                     sch, sheetId, data, sent, coords.rowIndex, coords.colIndex,
                     newValue)

\* The handler as a function of what it reads; it returns what it leaves in
\* the registry, the grid data and the list of requests sent.
handleCellEdit(E, sch, sheetId, data, sent, cellAddress, newValue) ==
    IF ~sch.loaded \/ sheetId = NoSheet
    THEN [engine |-> E, gridData |-> data, updates |-> sent, added |-> <<>>]
    ELSE CellEditAt(E, sch, sheetId, data, sent,
                    parseCellAddress(cellAddress), newValue)

\* the state the handler leaves
AfterCellEdit(r) ==
    /\ engine' = r.engine
    /\ gridData' = r.gridData
    /\ updates' = r.updates
    /\ formulas' = AddFormulas(formulas, r.added)

\* onCellEdit(cellAddress, newValue) called in the current render
OnCellEdit(cellAddress, newValue) ==
    AfterCellEdit(handleCellEdit(engine, schema, activeSheetId, gridData, updates,
                                 cellAddress, newValue))

\* ---- App: the formula bar effect ---------------------------------------

\* The effect calls getFormula(activeSheetId, selectedCell.row, selectedCell.col)
\* with the address's column letters where getFormula takes a column index.
\* The evaluation engine finds no formula at such an address or rejects it;
\* getFormula then returns null or throws.
GetFormulaOutcomes == {"null", "throws"}

\* schema.columns[key]?.name for a key that is a string: the name of a column
\* when the string is an array index, undefined (written <<>>) otherwise
ColumnNameAtKey(columns, key) ==
    IF Len(key) > 0 /\ AllDigits(key) /\ ParseInt(key) < Len(columns)
    THEN columns[ParseInt(key) + 1]
    ELSE <<>>

\* gridData[selectedCell.row][selectedCell.col] shown as text: the row is the
\* one at the address's 1-based number, the cell the property of that row
\* named by the column letters
ValueAtKey(data, row, key) ==
    IF Len(key) > 0 /\ AllDigits(key) /\ CellAt(data, row, ParseInt(key)) \notin {Null, Undefined}
    THEN ToText(CellAt(data, row, ParseInt(key)))
    ELSE <<>>

\* useEffect(..., [selectedCell, activeSheetId, schema, gridData]): what the
\* formula bar holds after the effect, `text` being what it held before
FormulaBarEffect(sel, sheetId, sch, data, text, outcome) ==
    IF sel # NoAddress /\ sheetId # NoSheet /\ sch.loaded
    THEN IF outcome = "throws" THEN text
         ELSE IF ColumnNameAtKey(sch.columns, sel.col) # <<>> /\ sel.row < Len(data)
              THEN ValueAtKey(data, sel.row, sel.col)
              ELSE <<>>
    ELSE <<>>

\* the effect runs in the render that follows the handler
RunFormulaBarEffect(text) ==
    \E outcome \in GetFormulaOutcomes :
        currentFormula' = FormulaBarEffect(selectedCell', activeSheetId', schema',
                                           gridData', text, outcome)

\* ---- ExcelGrid --------------------------------------------------------

\* the table body is rendered: not the loading view, not the empty view
GridVisible == schema.loaded /\ ~isLoading /\ Len(gridData) > 0

\* the cell of this address is one of the rendered cells
CellRendered(addr) ==
    /\ GridVisible
    /\ AddressMatches(addr.display)
    /\ LET coords == parseCellAddress(addr.display)
       IN  /\ coords.rowIndex >= 0 /\ coords.rowIndex < Len(gridData)
           /\ coords.colIndex < Len(schema.columns)

\* the address of the open session when an edit trigger runs, for lastEvent
OpenSession == IF editingCell.active THEN editingCell.address.display ELSE <<>>

SavingHandleEditComplete(save) ==
    /\ IF editingCell.active
       THEN OnCellEdit(editingCell.address.display, editingCell.value)
       ELSE UNCHANGED <<engine, gridData, updates, formulas>>
    /\ editingCell' = NotEditing

handleEditComplete(save) ==
    /\ IF editingCell.active /\ save
       THEN OnCellEdit(editingCell.address.display, editingCell.value)
       ELSE UNCHANGED <<engine, gridData, updates, formulas>>
    /\ editingCell' = NotEditing

\* setEditingCell(session) and the render that follows: the input of that
\* cell mounts with autoFocus when the cell is a rendered one
SetEditingCell(session) ==
    /\ editingCell' = session
    /\ focus' = IF CellRendered(session.address) THEN "cellInput" ELSE focus

\* a click on a cell; while the edit input has the focus a click elsewhere
\* is preceded by the input's blur, so the input is not focused here
handleCellClick(r, c) ==
    /\ GridVisible
    /\ focus # "cellInput"
    /\ selectedCell' = createCellAddress(r, c)
    /\ focus' = "grid"
    /\ lastEvent' = Event("click", createCellAddress(r, c).display, <<>>,
                          OpenSession, 0)
    /\ UNCHANGED <<editingCell, engine, gridData, updates>>
    /\ UNCHANGED <<activeSheetId, schema, isLoading, tables, loads>>
    /\ UNCHANGED appFrame
    /\ RunFormulaBarEffect(EditSeed(gridData, r, c))

\* a click inside the edit input bubbles to its cell: handleCellClick, whose
\* gridRef.focus() takes the focus from the input, so its onBlur runs
ClickEditor ==
    /\ GridVisible
    /\ focus = "cellInput"
    /\ Len(updates) < MaxGridCommits
    /\ LET coords == parseCellAddress(editingCell.address.display)
       IN  selectedCell' = createCellAddress(coords.rowIndex, coords.colIndex)
    /\ handleEditComplete(TRUE)
    /\ focus' = "grid"
    /\ lastEvent' = Event("clickEditor", editingCell.address.display,
                          editingCell.value, OpenSession, 0)
    /\ UNCHANGED <<activeSheetId, schema, isLoading, tables, loads>>
    /\ UNCHANGED editFrame
    /\ RunFormulaBarEffect(
          EditSeed(gridData, parseCellAddress(editingCell.address.display).rowIndex,
                   parseCellAddress(editingCell.address.display).colIndex))

\* the edit input loses the focus: onBlur={() => handleEditComplete(true)}
EditBlur ==
    /\ focus = "cellInput"
    /\ Len(updates) < MaxGridCommits
    /\ handleEditComplete(TRUE)
    /\ focus' = "body"
    /\ lastEvent' = Event("blur", editingCell.address.display,
                          editingCell.value, OpenSession, 0)
    /\ UNCHANGED <<selectedCell, activeSheetId, schema, isLoading, tables, loads>>
    /\ UNCHANGED editFrame
    /\ IF Len(updates') > Len(updates)
       THEN RunFormulaBarEffect(currentFormula)
       ELSE UNCHANGED currentFormula

\* a double click on a cell: the browser sends it after the click on that cell
handleCellDoubleClick(r, c) ==
    /\ GridVisible
    /\ lastEvent.type \in {"click", "clickEditor"}
    /\ lastEvent.address = createCellAddress(r, c).display
    /\ SetEditingCell([active |-> TRUE, address |-> createCellAddress(r, c),
                       value |-> EditSeed(gridData, r, c)])
    /\ lastEvent' = Event("dblclick", createCellAddress(r, c).display,
                          EditSeed(gridData, r, c), OpenSession, 0)
    /\ UNCHANGED <<selectedCell, engine, gridData, updates>>
    /\ UNCHANGED <<activeSheetId, schema, isLoading, tables, loads>>
    /\ UNCHANGED appFrame
    /\ UNCHANGED currentFormula

\* the guard of the window keydown handler of a mounted grid
KeyDownGuard == schema.loaded /\ selectedCell # NoAddress /\ ~editingCell.active

ArrowKeys == {"ArrowUp", "ArrowDown", "ArrowLeft", "ArrowRight"}

ArrowTarget(key) ==
    LET coords == parseCellAddress(selectedCell.display)
        newRow == IF key = "ArrowUp" THEN Max(0, coords.rowIndex - 1)
                  ELSE IF key = "ArrowDown"
                       THEN Min(Len(gridData) - 1, coords.rowIndex + 1)
                  ELSE coords.rowIndex
        newCol == IF key = "ArrowLeft" THEN Max(0, coords.colIndex - 1)
                  ELSE IF key = "ArrowRight"
                       THEN Min(Len(schema.columns) - 1, coords.colIndex + 1)
                  ELSE coords.colIndex
    IN  createCellAddress(newRow, newCol)

KeyArrow(key) ==
    /\ KeyDownGuard
    /\ selectedCell' = ArrowTarget(key)
    /\ lastEvent' = Event(key, ArrowTarget(key).display, <<>>, OpenSession, 0)
    /\ UNCHANGED <<editingCell, focus, engine, gridData, updates>>
    /\ UNCHANGED <<activeSheetId, schema, isLoading, tables, loads>>
    /\ UNCHANGED appFrame
    /\ RunFormulaBarEffect(
          EditSeed(gridData, parseCellAddress(ArrowTarget(key).display).rowIndex,
                   parseCellAddress(ArrowTarget(key).display).colIndex))

KeyF2 ==
    /\ KeyDownGuard
    /\ LET coords  == parseCellAddress(selectedCell.display)
           session == [active |-> TRUE,
                       address |-> createCellAddress(coords.rowIndex, coords.colIndex),
                       value |-> EditSeed(gridData, coords.rowIndex, coords.colIndex)]
       IN  /\ SetEditingCell(session)
           /\ lastEvent' = Event("F2", session.address.display, session.value,
                                 OpenSession, 0)
    /\ UNCHANGED <<selectedCell, engine, gridData, updates>>
    /\ UNCHANGED <<activeSheetId, schema, isLoading, tables, loads>>
    /\ UNCHANGED appFrame
    /\ UNCHANGED currentFormula

KeyDelete ==
    /\ KeyDownGuard
    /\ SetEditingCell([active |-> TRUE, address |-> selectedCell, value |-> <<>>])
    /\ lastEvent' = Event("Delete", selectedCell.display, <<>>, OpenSession, 0)
    /\ UNCHANGED <<selectedCell, engine, gridData, updates>>
    /\ UNCHANGED <<activeSheetId, schema, isLoading, tables, loads>>
    /\ UNCHANGED appFrame
    /\ UNCHANGED currentFormula

\* the single-character keys a user types
TypedKeys == {"5", "="}

\* a key that keeps the cell's text and appends the character typed
AppendingKeyType(key, modified) ==
    /\ schema.loaded
    /\ IF KeyDownGuard /\ ~modified
       THEN /\ SetEditingCell(
                  [active |-> TRUE, address |-> selectedCell,
                   value |-> EditSeed(gridData,
                                      parseCellAddress(selectedCell.display).rowIndex,
                                      parseCellAddress(selectedCell.display).colIndex)
                             \o <<key>>])
            /\ lastEvent' = Event("type", selectedCell.display, <<key>>, OpenSession, 0)
       ELSE /\ UNCHANGED <<editingCell, focus>>
            /\ lastEvent' = Event(IF modified THEN "keyModified" ELSE "keyIgnored",
                                  selectedCell.display, <<key>>, OpenSession, 0)
    /\ UNCHANGED <<selectedCell, engine, gridData, updates>>
    /\ UNCHANGED <<activeSheetId, schema, isLoading, tables, loads>>
    /\ UNCHANGED appFrame
    /\ UNCHANGED currentFormula

\* the keydown handler for a key of one character; `modified` is
\* e.ctrlKey || e.metaKey || e.altKey.  The listener is on the window, so the
\* handler also runs when no cell is selected or an edit is open, and returns.
KeyType(key, modified) ==
    /\ schema.loaded
    /\ IF KeyDownGuard /\ ~modified
       THEN /\ SetEditingCell([active |-> TRUE, address |-> selectedCell,
                               value |-> <<key>>])
            /\ lastEvent' = Event("type", selectedCell.display, <<key>>, OpenSession, 0)
       ELSE /\ UNCHANGED <<editingCell, focus>>
            /\ lastEvent' = Event(IF modified THEN "keyModified" ELSE "keyIgnored",
                                  selectedCell.display, <<key>>, OpenSession, 0)
    /\ UNCHANGED <<selectedCell, engine, gridData, updates>>
    /\ UNCHANGED <<activeSheetId, schema, isLoading, tables, loads>>
    /\ UNCHANGED appFrame
    /\ UNCHANGED currentFormula

\* the texts a user leaves in the edit input
EditBuffers == {<<>>, <<"5">>, <<"=", "B", "B", "*", "B", "B">>}

\* onChange of the edit input
EditChange(text) ==
    /\ focus = "cellInput"
    /\ editingCell.active
    /\ text # editingCell.value
    /\ editingCell' = [editingCell EXCEPT !.value = text]
    /\ lastEvent' = Event("change", editingCell.address.display, text,
                          OpenSession, 0)
    /\ UNCHANGED <<selectedCell, focus, engine, gridData, updates>>
    /\ UNCHANGED <<activeSheetId, schema, isLoading, tables, loads>>
    /\ UNCHANGED appFrame
    /\ UNCHANGED currentFormula

\* handleEditKeyDown: Enter
EditEnter ==
    /\ focus = "cellInput"
    /\ Len(updates) < MaxGridCommits
    /\ handleEditComplete(TRUE)
    /\ selectedCell' =
          IF selectedCell # NoAddress
          THEN LET coords == parseCellAddress(selectedCell.display)
               IN  createCellAddress(Min(Len(gridData) - 1, coords.rowIndex + 1),
                                     coords.colIndex)
          ELSE selectedCell
    /\ focus' = "body"
    /\ lastEvent' = Event("Enter", editingCell.address.display,
                          editingCell.value, OpenSession, 0)
    /\ UNCHANGED <<activeSheetId, schema, isLoading, tables, loads>>
    /\ UNCHANGED editFrame
    /\ IF selectedCell # NoAddress \/ Len(updates') > Len(updates)
       THEN RunFormulaBarEffect(currentFormula)
       ELSE UNCHANGED currentFormula

\* handleEditKeyDown: Escape
EditEscape ==
    /\ focus = "cellInput"
    /\ handleEditComplete(FALSE)
    /\ focus' = "body"
    /\ lastEvent' = Event("Escape", editingCell.address.display,
                          editingCell.value, OpenSession, 0)
    /\ UNCHANGED <<selectedCell, activeSheetId, schema, isLoading, tables, loads>>
    /\ UNCHANGED editFrame
    /\ UNCHANGED currentFormula

\* handleEditKeyDown: Tab
EditTab ==
    /\ focus = "cellInput"
    /\ Len(updates) < MaxGridCommits
    /\ handleEditComplete(TRUE)
    /\ selectedCell' =
          IF selectedCell # NoAddress
          THEN LET coords == parseCellAddress(selectedCell.display)
                   newCol == coords.colIndex + 1
               IN  IF newCol >= Len(schema.columns)
                   THEN createCellAddress(coords.rowIndex + 1, 0)
                   ELSE createCellAddress(coords.rowIndex, newCol)
          ELSE selectedCell
    /\ focus' = "body"
    /\ lastEvent' = Event("Tab", editingCell.address.display,
                          editingCell.value, OpenSession, 0)
    /\ UNCHANGED <<activeSheetId, schema, isLoading, tables, loads>>
    /\ UNCHANGED editFrame
    /\ IF selectedCell # NoAddress \/ Len(updates') > Len(updates)
       THEN RunFormulaBarEffect(currentFormula)
       ELSE UNCHANGED currentFormula

\* ---- the grid specification: the user works on a loaded sheet ---------

LoadedSheet == "s1"

\* the load that showed the sheet, as loadSheetData leaves it
FirstLoad ==
    [sheetId |-> LoadedSheet, trigger |-> "effect", phase |-> "done",
     served |-> TRUE, ok |-> TRUE, resp |-> <<>>, rows |-> SheetRows(LoadedSheet),
     outstanding |-> {}, commits |-> 0, overlapped |-> {}]

AppInit ==
    /\ activeSheetId = LoadedSheet
    /\ schema = [loaded |-> TRUE, columns |-> AppColumnNames]
    /\ gridData = SheetRows(LoadedSheet)
    /\ isLoading = FALSE
    /\ selectedCell = NoAddress
    /\ editingCell = NotEditing
    /\ focus = "body"
    /\ currentFormula = <<>>
    /\ tables = [s \in SheetIds |-> [rows |-> SheetRows(s), formulas |-> <<>>]]
    /\ loads = <<FirstLoad>>
    /\ updates = <<>>
    /\ lastEvent = NoEvent
    /\ FillIdle
    /\ PanelIdle
    /\ ShellLoaded
    /\ engine = initializeSheet(EmptyEngine, LoadedSheet, SheetRows(LoadedSheet))
    /\ backingColumnNames = AppColumnNames
    /\ formulaInput = NoFormula
    /\ lastOp = NoOp
    /\ colIndex = 0 /\ rowIndex = 0 /\ column = <<"A">>
    /\ ntcIndex = 0 /\ ntcResult = <<>> /\ ntcSteps = 0
    /\ address = NoAddress
    /\ parsed = NotParsed
    /\ ctnResult = NotComputed
    /\ ParseIdle

GridNext ==
    \/ \E r \in 0..(Len(gridData) - 1), c \in 0..(Len(schema.columns) - 1) :
          handleCellClick(r, c)
    \/ ClickEditor
    \/ EditBlur
    \/ \E r \in 0..(Len(gridData) - 1), c \in 0..(Len(schema.columns) - 1) :
          handleCellDoubleClick(r, c)
    \/ \E key \in ArrowKeys : KeyArrow(key)
    \/ KeyF2
    \/ KeyDelete
    \/ \E key \in TypedKeys, modified \in BOOLEAN : KeyType(key, modified)
    \/ \E text \in EditBuffers : EditChange(text)
    \/ EditEnter
    \/ EditEscape
    \/ EditTab

SpecGrid == AppInit /\ [][GridNext]_vars

------------------------------------------------------------------------------
(* Claims about the grid *)

GridCells ==
    {<<r, c>> : r \in 0..(Len(SheetRows(LoadedSheet)) - 1),
                c \in 0..(Len(AppColumnNames) - 1)}

\* the events that open an edit session or change its buffer
EditOpeners == {"dblclick", "F2", "Delete", "type"}

\* C7: opening an edit session, changing its buffer and cancelling it with
\* Escape are steps that leave getCellValue and getFormula of every cell, the
\* grid data and the backing store as they were and send no request; the
\* Escape step closes the session and leaves its cell, the one the session
\* was opened on, selected.
C7_EscapeIsNoOp ==
    [][ (lastEvent'.type \in (EditOpeners \cup {"change", "Escape"}))
        => /\ \A p \in GridCells, s \in SheetIds :
                 /\ getCellValue(engine', s, p[1], p[2])
                       = getCellValue(engine, s, p[1], p[2])
                 /\ getFormula(engine', s, p[1], p[2])
                       = getFormula(engine, s, p[1], p[2])
           /\ gridData' = gridData
           /\ tables' = tables
           /\ updates' = updates
           /\ loads' = loads
           /\ (lastEvent'.type = "Escape")
                 => /\ editingCell.active
                    /\ ~editingCell'.active
                    /\ selectedCell' = selectedCell
                    /\ selectedCell.display = editingCell.address.display
      ]_vars

\* an edit whose buffer was changed to a formula has been cancelled
C7_Witness ==
    /\ lastEvent.type = "Escape"
    /\ lastEvent.value = <<"=", "B", "B", "*", "B", "B">>
    /\ ~editingCell.active
    /\ selectedCell.display = lastEvent.address
    /\ Len(updates) = 1

\* C10: there is one edit session at most, and when a trigger (double click,
\* F2, Delete, keystroke) opens a session, no session on another cell is open
\* any more: it was committed or cancelled before.
C10_SessionClosedBeforeNext ==
    (lastEvent.type \in EditOpeners)
        => (lastEvent.prior = <<>> \/ lastEvent.prior = lastEvent.address)

\* the events that commit the open edit session
CommitEvents == {"Enter", "Tab", "blur", "clickEditor"}

\* C11: a commit writes the buffer to the registry with setCellValue; the grid
\* then shows the value the registry computes for the cell when the buffer is
\* a formula, and the literal otherwise; the request sent to the store carries
\* that same value, and the raw formula text when the buffer is a formula.
\* This holds whatever value the registry computes.
C11_CommitShowsComputedValue ==
    [][ (lastEvent'.type \in CommitEvents /\ Len(updates') = Len(updates) + 1)
        => LET coords  == parseCellAddress(lastEvent'.address)
               buffer  == lastEvent'.value
               sent    == updates'[Len(updates')]
               shown   == CellAt(gridData', coords.rowIndex, coords.colIndex)
               computed == getCellValue(engine', activeSheetId,
                                        coords.rowIndex, coords.colIndex)
           IN  /\ engine' = setCellValue(engine, activeSheetId, coords.rowIndex,
                                         coords.colIndex, Str(buffer),
                                         schema.columns)
               /\ IF StartsWithEquals(buffer)
                  THEN /\ shown = computed
                       /\ sent.value = computed
                       /\ sent.formula = Str(buffer)
                  ELSE /\ shown = Str(buffer)
                       /\ sent.value = Str(buffer)
                       /\ sent.formula = Undefined
      ]_vars

RowDelta(key) == IF key = "ArrowUp" THEN -1 ELSE IF key = "ArrowDown" THEN 1 ELSE 0
ColDelta(key) == IF key = "ArrowLeft" THEN -1 ELSE IF key = "ArrowRight" THEN 1 ELSE 0

InGrid(row, col) ==
    /\ row \in 0..(Len(gridData) - 1)
    /\ col \in 0..(Len(schema.columns) - 1)

\* C18: an arrow key pressed while a cell is selected and no edit is open
\* moves the selection to the neighbouring cell in the key's direction when
\* that cell is in the grid and leaves it where it is otherwise; the selected
\* cell is then a cell of the grid, and no edit session is opened.
C18_ArrowMovesOneCellClamped ==
    [][ (lastEvent'.type \in ArrowKeys)
        => LET key == lastEvent'.type
               old == parseCellAddress(selectedCell.display)
               new == parseCellAddress(selectedCell'.display)
               row == old.rowIndex + RowDelta(key)
               col == old.colIndex + ColDelta(key)
           IN  /\ IF InGrid(row, col)
                  THEN new.rowIndex = row /\ new.colIndex = col
                  ELSE new.rowIndex = old.rowIndex /\ new.colIndex = old.colIndex
               /\ InGrid(new.rowIndex, new.colIndex)
               /\ editingCell' = editingCell
               /\ ~editingCell'.active
      ]_vars

\* the text of a literal cell value: nothing for an empty cell
LiteralText(v) == IF v \in {Null, Undefined} THEN <<>> ELSE ToText(v)

\* C19: once an arrow key has moved the selection and the formula bar has
\* settled, the bar holds the raw formula text that was committed into the
\* selected cell when the registry holds a formula for the cell, and the
\* text of the cell's literal value otherwise, whatever the cell and whatever
\* the value.
C19_FormulaBarAfterArrow ==
    [][ (lastEvent'.type \in ArrowKeys)
        => LET coords == parseCellAddress(selectedCell'.display)
               row == coords.rowIndex
               col == coords.colIndex
           IN  IF getFormula(engine', activeSheetId, row, col) # Null
               THEN \E k \in 1..Len(updates') :
                       /\ updates'[k].column = schema.columns[col + 1]
                       /\ updates'[k].formula = Str(currentFormula')
               ELSE currentFormula' = LiteralText(CellAt(gridData', row, col))
      ]_vars

\* C20: a double click on a cell, or F2 on the selected cell, opens an edit
\* session on that cell, and the buffer of the session is the raw formula
\* text committed into the cell when the registry holds a formula for it, and
\* otherwise the text of the cell's literal value (nothing for an empty cell).
C20_EditSeedIsRawFormulaOrLiteral ==
    [][ (lastEvent'.type \in {"dblclick", "F2"})
        => LET coords == parseCellAddress(lastEvent'.address)
               row == coords.rowIndex
               col == coords.colIndex
           IN  /\ editingCell'.active
               /\ editingCell'.address.display = lastEvent'.address
               /\ IF getFormula(engine, activeSheetId, row, col) # Null
                  THEN \E k \in 1..Len(updates) :
                          /\ updates[k].column = schema.columns[col + 1]
                          /\ updates[k].formula = Str(editingCell'.value)
                  ELSE editingCell'.value = LiteralText(CellAt(gridData, row, col))
      ]_vars

\* C21: Delete pressed while a cell is selected and no edit is open is an
\* edit with an empty buffer committed at once: after the Delete step itself
\* no edit session is open, the selection is where it was, the registry has
\* no content for the cell, the grid shows the cell empty, and the request
\* that clears the cell has been sent to the store.
C21_DeleteClearsAtOnce ==
    [][ (lastEvent'.type = "Delete")
        => LET coords == parseCellAddress(lastEvent'.address)
               row == coords.rowIndex
               col == coords.colIndex
           IN  /\ ~editingCell'.active
               /\ selectedCell' = selectedCell
               /\ InGrid(row, col)
                     => /\ getCellValue(engine', activeSheetId, row, col) = Null
                        /\ LiteralText(CellAt(gridData', row, col)) = <<>>
                        /\ Len(updates') = Len(updates) + 1
                        /\ updates'[Len(updates')].column = schema.columns[col + 1]
                        /\ LiteralText(updates'[Len(updates')].value) = <<>>
      ]_vars

\* C22: a key of one character pressed without Ctrl, Meta or Alt while a cell
\* is selected and no edit is open starts an edit session on the selected
\* cell whose buffer is that character alone, whatever the cell held; the key
\* starts no session and changes none when it is pressed with such a
\* modifier, with no cell selected, or while an edit is open.
C22_KeystrokeStartsEdit ==
    [][ /\ (lastEvent'.type = "type")
            => /\ selectedCell # NoAddress /\ ~editingCell.active
               /\ Len(lastEvent'.value) = 1
               /\ editingCell' = [active |-> TRUE, address |-> selectedCell,
                                  value |-> lastEvent'.value]
               /\ selectedCell' = selectedCell
        /\ (lastEvent'.type = "keyIgnored")
            => /\ selectedCell = NoAddress \/ editingCell.active
               /\ editingCell' = editingCell
        /\ (lastEvent'.type = "keyModified") => editingCell' = editingCell
        /\ (lastEvent'.type \in {"type", "keyIgnored", "keyModified"})
            => /\ gridData' = gridData /\ engine' = engine /\ updates' = updates
      ]_vars

\* "=" was typed on B2, which holds 7: the session on B2 has the buffer "="
C22_Witness ==
    /\ lastEvent.type = "type"
    /\ lastEvent.address = <<"B", "2">>
    /\ CellAt(gridData, 1, 1) = Num(7)
    /\ editingCell = [active |-> TRUE, address |-> createCellAddress(1, 1),
                      value |-> <<"=">>]

C32_SelectionStaysInGrid ==
    (Len(gridData) >= 1 /\ Len(schema.columns) >= 1)
    => /\ selectedCell # NoAddress
             => LET coords == parseCellAddress(selectedCell.display)
                IN  ~coords.threw /\ InGrid(coords.rowIndex, coords.colIndex)
       /\ editingCell.active
             => LET coords == parseCellAddress(editingCell.address.display)
                IN  ~coords.threw /\ InGrid(coords.rowIndex, coords.colIndex)

------------------------------------------------------------------------------
(* Loads and writes: App.loadSheetData and the requests of handleCellEdit,  *)
(* each await a request the store serves and a response delivered later.    *)

Resolved(load) == load.phase \in {"done", "failed"}

\* the loads of this sheet that have not resolved
OutstandingLoads(sheetId) ==
    {i \in 1..Len(loads) : loads[i].sheetId = sheetId /\ ~Resolved(loads[i])}

\* loadSheetData(sheetId), up to its first await.  setSchema(null) unmounts
\* the grid and, through the store's setSchema, clears the selection.
loadSheetData(sheetId, trigger) ==
    /\ isLoading' = TRUE
    /\ gridData' = <<>>
    /\ schema' = NoSchema
    /\ selectedCell' = NoAddress
    /\ editingCell' = NotEditing
    /\ focus' = "body"
    /\ currentFormula' = <<>>
    /\ loads' = Append(loads,
          [sheetId |-> sheetId, trigger |-> trigger, phase |-> "schema",
           served |-> FALSE, ok |-> FALSE, resp |-> <<>>, rows |-> <<>>,
           outstanding |-> OutstandingLoads(sheetId), commits |-> Len(updates),
           overlapped |-> {i \in 1..Len(loads) : ~Resolved(loads[i])}])

\* the load effect runs again: `sheets` changed (a sheet was renamed)
SheetsChanged ==
    /\ activeSheetId # NoSheet
    /\ Len(SelectSeq(loads, LAMBDA l : l.trigger = "effect")) < 1 + MaxLoads
    /\ loadSheetData(activeSheetId, "effect")
    /\ lastEvent' = Event("request", <<>>, <<>>, <<>>, 0)
    /\ UNCHANGED <<activeSheetId, engine, tables, updates>>
    /\ UNCHANGED appFrame

\* the edits a user commits through the grid
EditTargets == {<<0, 1>>, <<1, 1>>}
EditValues == {<<"5">>, <<"=", "A", "+", "A">>}

\* the grid calls onCellEdit for a rendered cell
CellEdit(r, c, text) ==
    /\ GridVisible
    /\ r < Len(gridData) /\ c < Len(schema.columns)
    /\ Len(updates) < MaxCommits
    /\ OnCellEdit(createCellAddress(r, c).display, text)
    /\ lastEvent' = Event("commit", <<>>, <<>>, <<>>, 0)
    /\ UNCHANGED <<activeSheetId, schema, isLoading, selectedCell, editingCell,
                   focus, tables, loads>>
    /\ UNCHANGED editFrame
    /\ RunFormulaBarEffect(currentFormula)

\* the store answers the request a load is waiting for, or fails to
ServeLoad(i, ok) ==
    /\ ~Resolved(loads[i])
    /\ ~loads[i].served
    /\ loads' = [loads EXCEPT
          ![i].served = TRUE,
          ![i].ok = ok,
          ![i].resp = IF ~ok THEN <<>>
                      ELSE IF loads[i].phase = "schema" THEN AppColumnNames
                      ELSE IF loads[i].phase = "query"
                           THEN tables[loads[i].sheetId].rows
                      ELSE tables[loads[i].sheetId].formulas]
    /\ lastEvent' = Event("request", <<>>, <<>>, <<>>, 0)
    /\ UNCHANGED <<activeSheetId, schema, gridData, isLoading, selectedCell,
                   editingCell, focus, engine, tables, updates>>
    /\ UNCHANGED appFrame
    /\ UNCHANGED currentFormula

IndexOfColumn(names, name) ==
    IF \E k \in 1..Len(names) : names[k] = name
    THEN (CHOOSE k \in 1..Len(names) :
              names[k] = name /\ \A j \in 1..(k - 1) : names[j] # name) - 1
    ELSE -1

\* pkMap.get(String(rowId)): the last row whose key has this text, or -1
PkIndex(rows, rowId) ==
    LET hits == {k \in 1..Len(rows) : ToText(CellAt(rows, k - 1, 0)) = ToText(rowId)}
    IN  IF hits = {} THEN -1
        ELSE (CHOOSE k \in hits : \A j \in hits : j <= k) - 1

\* a forEach that ends at the first saved formula whose row or column is
\* not found
RECURSIVE StopAtMissingRestoreFormulas(_, _, _, _, _, _)
StopAtMissingRestoreFormulas(E, sheetId, saved, rows, columnNames, k) ==
    IF k > Len(saved) THEN E
    ELSE LET f == saved[k]
             row == PkIndex(rows, f.rowId)
             col == IndexOfColumn(columnNames, f.column)
         IN  IF row # -1 /\ col # -1
             THEN StopAtMissingRestoreFormulas(
                      setCellValue(E, sheetId, row, col, f.formula, columnNames),
                      sheetId, saved, rows, columnNames, k + 1)
             ELSE E

\* formulas.forEach(...) of loadSheetData, from the k-th saved formula on
RECURSIVE RestoreFormulas(_, _, _, _, _, _)
RestoreFormulas(E, sheetId, saved, rows, columnNames, k) ==
    IF k > Len(saved) THEN E
    ELSE LET f == saved[k]
             row == PkIndex(rows, f.rowId)
             col == IndexOfColumn(columnNames, f.column)
             E1  == IF row # -1 /\ col # -1
                    THEN setCellValue(E, sheetId, row, col, f.formula, columnNames)
                    ELSE E
         IN  RestoreFormulas(E1, sheetId, saved, rows, columnNames, k + 1)

\* String.fromCharCode(code): a letter for 65..90, and for any other code a
\* character that is no letter, written "?"
StringFromCharCode(code) ==
    IF code >= 65 /\ code <= 90 THEN UpperLetters[code - 64] ELSE "?"

\* loadSheetData: the cellAddress recorded for a restored formula
RestoredCellAddress(r, c) == <<StringFromCharCode(65 + c)>> \o NumberToString(r + 1)

\* the metadata the forEach of loadSheetData hands to addFormula, from the
\* k-th saved formula on: one for every formula whose row and column are found
RECURSIVE RestoredMetadata(_, _, _, _, _)
RestoredMetadata(sheetId, saved, rows, columnNames, k) ==
    IF k > Len(saved) THEN <<>>
    ELSE LET f == saved[k]
             row == PkIndex(rows, f.rowId)
             col == IndexOfColumn(columnNames, f.column)
             rest == RestoredMetadata(sheetId, saved, rows, columnNames, k + 1)
         IN  IF row # -1 /\ col # -1
             THEN <<[sheetId |-> sheetId,
                     cellAddress |-> RestoredCellAddress(row, col),
                     formulaType |-> "cell",
                     formula |-> f.formula.s]>> \o rest
             ELSE rest

\* the continuation of loadSheetData after the await its response ends
DeliverLoad(i) ==
    /\ ~Resolved(loads[i])
    /\ loads[i].served
    /\ LET load == loads[i]
       IN  IF ~load.ok /\ load.phase # "formulas"
           THEN \* catch (err) ... finally
                /\ isLoading' = FALSE
                /\ loads' = [loads EXCEPT ![i].phase = "failed", ![i].resp = <<>>]
                /\ UNCHANGED <<schema, selectedCell, gridData, engine,
                               currentFormula, formulas>>
           ELSE IF load.phase = "schema"
           THEN /\ schema' = [loaded |-> TRUE, columns |-> load.resp]
                /\ selectedCell' = NoAddress
                /\ currentFormula' = <<>>
                /\ loads' = [loads EXCEPT ![i].phase = "query",
                                          ![i].served = FALSE, ![i].resp = <<>>]
                /\ UNCHANGED <<isLoading, gridData, engine, formulas>>
           ELSE IF load.phase = "query"
           THEN /\ gridData' = load.resp
                /\ engine' = initializeSheet(engine, load.sheetId, load.resp)
                /\ loads' = [loads EXCEPT ![i].phase = "formulas",
                                          ![i].served = FALSE, ![i].resp = <<>>,
                                          ![i].rows = load.resp]
                /\ UNCHANGED <<isLoading, schema, selectedCell, formulas>>
                /\ \E outcome \in GetFormulaOutcomes :
                      currentFormula' = FormulaBarEffect(selectedCell, activeSheetId,
                                                         schema, load.resp,
                                                         currentFormula, outcome)
           ELSE /\ engine' = IF load.ok
                             THEN RestoreFormulas(engine, load.sheetId, load.resp,
                                                  load.rows, AppColumnNames, 1)
                             ELSE engine
                /\ formulas' = IF load.ok
                               THEN AddFormulas(formulas,
                                       RestoredMetadata(load.sheetId, load.resp,
                                                        load.rows, AppColumnNames, 1))
                               ELSE formulas
                /\ isLoading' = FALSE
                /\ loads' = [loads EXCEPT ![i].phase = "done", ![i].resp = <<>>]
                /\ UNCHANGED <<schema, selectedCell, gridData, currentFormula>>
    /\ lastEvent' = IF loads'[i].phase = "done"
                    THEN Event("loadDone", <<>>, <<>>, <<>>, i)
                    ELSE Event("request", <<>>, <<>>, <<>>, 0)
    /\ UNCHANGED <<activeSheetId, editingCell, focus, tables, updates>>
    /\ UNCHANGED editFrame

\* the store applies one cell update: the rows of that key take the value,
\* the formula text is saved with the cell or, without one, removed
ApplyUpdate(table, u) ==
    LET col == IndexOfColumn(AppColumnNames, u.column) + 1
        others == SelectSeq(table.formulas,
                     LAMBDA f : ~(ToText(f.rowId) = ToText(u.rowId)
                                  /\ f.column = u.column))
    IN  [rows |-> [k \in 1..Len(table.rows) |->
                      IF ToText(table.rows[k][1]) = ToText(u.rowId)
                      THEN [table.rows[k] EXCEPT ![col] = u.value]
                      ELSE table.rows[k]],
         formulas |-> IF u.formula = Undefined THEN others
                      ELSE Append(others, [rowId |-> u.rowId, column |-> u.column,
                                           formula |-> u.formula])]

\* the store serves an updateCell request, or rejects it
ServeUpdate(i, ok) ==
    /\ updates[i].state = "sent"
    /\ updates' = [updates EXCEPT ![i].state = IF ok THEN "ok" ELSE "failed"]
    /\ tables' = IF ok
                 THEN [tables EXCEPT ![updates[i].sheetId] = ApplyUpdate(@, updates[i])]
                 ELSE tables
    /\ lastEvent' = Event("request", <<>>, <<>>, <<>>, 0)
    /\ UNCHANGED <<activeSheetId, schema, gridData, isLoading, selectedCell,
                   editingCell, focus, engine, loads>>
    /\ UNCHANGED appFrame
    /\ UNCHANGED currentFormula

\* handleCellEdit resumes after `await api.updateCell(...)`
DeliverUpdate(i) ==
    /\ updates[i].state \in {"ok", "failed"}
    /\ updates' = [updates EXCEPT ![i].state = "done"]
    /\ IF updates[i].state = "failed"
       THEN \* catch (err): await loadSheetData(activeSheetId)
            loadSheetData(updates[i].sheetId, "writeFailed")
       ELSE UNCHANGED <<isLoading, gridData, schema, selectedCell, editingCell,
                        focus, currentFormula, loads>>
    /\ lastEvent' = Event("request", <<>>, <<>>, <<>>, 0)
    /\ UNCHANGED <<activeSheetId, engine, tables>>
    /\ UNCHANGED appFrame

LoadNext ==
    \/ SheetsChanged
    \/ \E t \in EditTargets, text \in EditValues : CellEdit(t[1], t[2], text)
    \/ \E i \in 1..Len(loads), ok \in BOOLEAN : ServeLoad(i, ok)
    \/ \E i \in 1..Len(loads) : DeliverLoad(i)
    \/ \E i \in 1..Len(updates), ok \in BOOLEAN : ServeUpdate(i, ok)
    \/ \E i \in 1..Len(updates) : DeliverUpdate(i)

SpecLoad == AppInit /\ [][LoadNext]_vars

------------------------------------------------------------------------------
(* Claims about loads and writes *)

\* C8: when a load of a sheet started while an earlier load of that sheet was
\* outstanding, then once both have run to their end with every response
\* received (and nothing was edited or loaded since) the grid data and the
\* schema are those the later load fetched.
C8_LaterLoadSupersedes ==
    \A j \in 1..Len(loads) : \A i \in loads[j].outstanding :
        ( /\ j = Len(loads)
          /\ loads[i].phase = "done" /\ loads[i].ok
          /\ loads[j].phase = "done" /\ loads[j].ok
          /\ Len(updates) = loads[j].commits )
        => /\ gridData = loads[j].rows
           /\ schema = [loaded |-> TRUE, columns |-> AppColumnNames]

\* C9: when the re-fetch started by a failed write is done, no other load
\* ran beside it and no write is in flight, the grid data equal the rows of
\* the backing store.
C9_RefetchEqualsStore ==
    \A j \in 1..Len(loads) :
        ( /\ loads[j].trigger = "writeFailed"
          /\ lastEvent.type = "loadDone" /\ lastEvent.id = j
          /\ loads[j].ok
          /\ j = Len(loads) /\ loads[j].outstanding = {}
          /\ \A k \in 1..Len(updates) : updates[k].state = "done" )
        => gridData = tables[loads[j].sheetId].rows

\* C12: a commit runs to completion in one step: the registry write, the
\* grid update and the request to the store of one commit happen together,
\* with nothing of another commit or of a response in between, and the
\* requests sent before stay as they were.  A request that has not been
\* answered does not keep the grid from taking the next commit.
C12_CommitRunsToCompletion ==
    [][    /\ (Len(updates') > Len(updates)) => (lastEvent'.type = "commit")
           /\ (lastEvent'.type = "commit")
                 => /\ Len(updates') = Len(updates) + 1
                    /\ SubSeq(updates', 1, Len(updates)) = updates
                    /\ updates'[Len(updates')].state = "sent"
                    /\ \E t \in EditTargets, text \in EditValues :
                          /\ updates'[Len(updates')].column = schema.columns[t[2] + 1]
                          /\ updates'[Len(updates')].rowId = CellAt(gridData, t[1], 0)
                          /\ engine' = setCellValue(engine, activeSheetId, t[1], t[2],
                                                    Str(text), schema.columns)
                          /\ gridData' = SetGridCell(gridData, t[1], t[2],
                                                     updates'[Len(updates')].value)
         ]_vars

\* a second commit has run while the request of the first is unanswered
C12_Witness ==
    /\ lastEvent.type = "commit"
    /\ Len(updates) = 2
    /\ updates[1].state = "sent"
    /\ updates[2].state = "sent"
    /\ updates[1].column = updates[2].column
    /\ getFormula(engine, activeSheetId, 0, 1) # Null

------------------------------------------------------------------------------
(* The sheet specification: callers load tabular content of every shape    *)
(* into one sheet of the registry and write its cells; the other sheet is   *)
(* never initialized.  lastOp keeps, with the call, its data, the grid      *)
(* handed to the evaluation engine and the registry before the call.        *)

SheetNoOp ==
    [op |-> "none", sheetId |-> "", row |-> 0, col |-> 0, content |-> Null,
     data |-> <<>>, handed |-> <<>>, before |-> EmptyEngine]

\* the tabular contents callers load
RectangularRows   == << <<Num(1), Num(2)>>, <<Num(3), Num(4)>> >>
RowsWithUndefined == << <<Num(1), Undefined>>, <<Num(3), Num(4)>> >>
RaggedRows        == << <<Num(1), Num(2)>>, <<Num(3)>> >>
RowsWithNonArray  == << <<Num(1), Num(2)>>, NonArrayRow >>
RowsWithFormula   == << <<Num(1), Str(<<"=", "A", "1", "+", "1">>)>> >>

SheetDataInputs ==
    {RectangularRows, RowsWithUndefined, RaggedRows, RowsWithNonArray,
     RowsWithFormula, NonArrayData}

\* the cells callers write: a data cell, and a cell right of the data
SheetTargets == {<<0, 1>>, <<1, 2>>}

\* the contents callers write: a formula over column names, a literal, nothing
RawFormula == <<"=", "A", "+", "A">>
SheetContents == {Str(RawFormula), Str(<<"5">>), Str(<<>>)}

SheetInit ==
    /\ engine = EmptyEngine
    /\ backingColumnNames = AppColumnNames
    /\ formulaInput = NoFormula
    /\ lastOp = SheetNoOp
    /\ colIndex = 0 /\ rowIndex = 0 /\ column = <<"A">>
    /\ ntcIndex = 0 /\ ntcResult = <<>> /\ ntcSteps = 0
    /\ address = NoAddress
    /\ parsed = NotParsed
    /\ ctnResult = NotComputed
    /\ ParseIdle
    /\ AppIdle

SheetInitializeSheet(sheetId, data) ==
    /\ engine' = initializeSheet(engine, sheetId, data)
    /\ lastOp' = [op |-> "initializeSheet", sheetId |-> sheetId,
                  row |-> 0, col |-> 0, content |-> Null,
                  data |-> data, handed |-> SafeData(data), before |-> engine]
    /\ UNCHANGED <<backingColumnNames, formulaInput>>
    /\ UNCHANGED <<codecVars, appVars>>

SheetSetCellValue(sheetId, row, col, content) ==
    /\ engine' = setCellValue(engine, sheetId, row, col, content, backingColumnNames)
    /\ lastOp' = [op |-> "setCellValue", sheetId |-> sheetId,
                  row |-> row, col |-> col, content |-> content,
                  data |-> <<>>, handed |-> <<>>, before |-> engine]
    /\ UNCHANGED <<backingColumnNames, formulaInput>>
    /\ UNCHANGED <<codecVars, appVars>>

SheetNext ==
    \/ \E data \in SheetDataInputs : SheetInitializeSheet(LoadedSheet, data)
    \/ \E t \in SheetTargets, content \in SheetContents :
          SheetSetCellValue(LoadedSheet, t[1], t[2], content)

SpecSheet == SheetInit /\ [][SheetNext]_vars

------------------------------------------------------------------------------
(* Claims on the registry of one sheet *)

\* the cells a caller can ask about in the sheet specification
SheetProbeCells == {<<r, c>> : r \in 0..2, c \in 0..2}

\* where the entries of getAllFormulas are, and with which text
EntryTexts(entries) ==
    [k \in 1..Len(entries) |->
        [row |-> entries[k].row, col |-> entries[k].col,
         formula |-> entries[k].formula]]

\* the last call wrote a cell of an initialized sheet
CellWasSet == lastOp.op = "setCellValue" /\ MapHas(lastOp.before, lastOp.sheetId)

\* C13: when setCellValue writes content that does not start with "=" into a
\* cell that holds a formula, the formula entry of that cell is removed:
\* getFormula of the cell is null, getAllFormulas lists the cell no more, and
\* the formulas of all other cells stay as they were.
C13_LiteralRemovesFormula ==
    ( /\ CellWasSet
      /\ ~isFormula(lastOp.content)
      /\ getFormula(lastOp.before, lastOp.sheetId, lastOp.row, lastOp.col) # Null )
    => /\ getFormula(engine, lastOp.sheetId, lastOp.row, lastOp.col) = Null
       /\ \A k \in 1..Len(getAllFormulas(engine, lastOp.sheetId)) :
             LET e == getAllFormulas(engine, lastOp.sheetId)[k]
             IN  ~(e.row = lastOp.row /\ e.col = lastOp.col)
       /\ \A p \in SheetProbeCells \ {<<lastOp.row, lastOp.col>>} :
             getFormula(engine, lastOp.sheetId, p[1], p[2])
               = getFormula(lastOp.before, lastOp.sheetId, p[1], p[2])
       /\ EntryTexts(getAllFormulas(engine, lastOp.sheetId))
             = SelectSeq(EntryTexts(getAllFormulas(lastOp.before, lastOp.sheetId)),
                         LAMBDA e : ~(e.row = lastOp.row /\ e.col = lastOp.col))

\* a literal was written over one of two formula cells and the other formula
\* is still listed
C13_Witness ==
    /\ CellWasSet
    /\ lastOp.content = Str(<<"5">>)
    /\ getFormula(lastOp.before, lastOp.sheetId, lastOp.row, lastOp.col) # Null
    /\ Len(getAllFormulas(lastOp.before, lastOp.sheetId)) = 2
    /\ Len(getAllFormulas(engine, lastOp.sheetId)) = 1
    /\ getCellValue(engine, lastOp.sheetId, lastOp.row, lastOp.col) = Num(5)

\* the last call loaded content into a sheet that was initialized before
SheetWasReloaded ==
    lastOp.op = "initializeSheet" /\ MapHas(lastOp.before, lastOp.sheetId)

\* C14: initializeSheet on a sheet that is already initialized replaces its
\* content as a whole: every value read afterwards is a value of the new
\* content, every formula reported afterwards is a formula of the new content
\* (none of the earlier content is), the sheet keeps its place in the engine,
\* and initializing once more with the same content changes nothing.
C14_ReinitializeReplaces ==
    SheetWasReloaded =>
        /\ \A p \in SheetProbeCells :
              getCellValue(engine, lastOp.sheetId, p[1], p[2])
                = HfCellValue(HfSheetContent(lastOp.handed), p[1], p[2])
        /\ \A k \in 1..Len(getAllFormulas(engine, lastOp.sheetId)) :
              LET e == getAllFormulas(engine, lastOp.sheetId)[k]
              IN  isFormula(CellAt(lastOp.handed, e.row, e.col))
        /\ MapGet(engine, lastOp.sheetId) = MapGet(lastOp.before, lastOp.sheetId)
        /\ engine.names = lastOp.before.names
        /\ initializeSheet(engine, lastOp.sheetId, lastOp.data) = engine

\* a sheet that held two formulas, one of them right of the new data, was
\* loaded again with plain numbers and reports no formula
C14_Witness ==
    /\ SheetWasReloaded
    /\ lastOp.data = RectangularRows
    /\ Len(getAllFormulas(lastOp.before, lastOp.sheetId)) = 2
    /\ getFormula(lastOp.before, lastOp.sheetId, 1, 2) # Null
    /\ getAllFormulas(engine, lastOp.sheetId) = <<>>
    /\ getCellValue(engine, lastOp.sheetId, 1, 2) = Null

\* C15: the grid initializeSheet hands to the evaluation engine has no holes,
\* whatever the input (rows of unequal length and rows that are not arrays
\* included): no cell of it is undefined, and all its rows have the same
\* length, a missing cell being filled with the empty marker.
C15_HandedGridIsRectangular ==
    (lastOp.op = "initializeSheet") =>
        /\ \A r \in 1..Len(lastOp.handed) : \A c \in 1..Len(lastOp.handed[r]) :
              lastOp.handed[r][c] # Undefined
        /\ \A r, q \in 1..Len(lastOp.handed) :
              Len(lastOp.handed[r]) = Len(lastOp.handed[q])

\* C16: the formula text the registry reports for a cell is the raw text the
\* caller gave to setCellValue, not the text resolved for the evaluation
\* engine: the entry of the cell in getAllFormulas carries the raw text and
\* getFormula returns it; getFormula is null for a cell without a formula.
C16_ReportedFormulaIsRaw ==
    /\ (CellWasSet /\ isFormula(lastOp.content))
          => /\ \E k \in 1..Len(getAllFormulas(engine, lastOp.sheetId)) :
                   LET e == getAllFormulas(engine, lastOp.sheetId)[k]
                   IN  /\ e.row = lastOp.row /\ e.col = lastOp.col
                       /\ e.formula = lastOp.content.s
             /\ getFormula(engine, lastOp.sheetId, lastOp.row, lastOp.col)
                   = lastOp.content
    /\ \A p \in SheetProbeCells :
          (HfCellFormula(IF MapHas(engine, LoadedSheet)
                         THEN engine.content[MapGet(engine, LoadedSheet) + 1]
                         ELSE <<>>, p[1], p[2]) = Undefined)
             => getFormula(engine, LoadedSheet, p[1], p[2]) = Null

\* the formula cells of a sheet of the registry
FormulaCells(E, sheetId) ==
    LET content == E.content[MapGet(E, sheetId) + 1]
    IN  {p \in DOMAIN content : content[p].t = "formula"}

\* C17: getAllFormulas returns the formula cells inside the loaded extent of
\* the sheet, all of them and each exactly once, with the value getCellValue
\* gives for the cell; for a sheet never initialized it returns nothing.
C17_AllFormulasExactlyOnce ==
    \A s \in SheetIds :
        LET entries == getAllFormulas(engine, s)
        IN  IF ~MapHas(engine, s) THEN entries = <<>>
            ELSE LET dims == HfSheetDimensions(engine.content[MapGet(engine, s) + 1])
                 IN  /\ {<<entries[k].row, entries[k].col>> : k \in 1..Len(entries)}
                           = FormulaCells(engine, s)
                     /\ Len(entries) = Cardinality(FormulaCells(engine, s))
                     /\ \A k \in 1..Len(entries) :
                           /\ entries[k].row \in 0..(dims.height - 1)
                           /\ entries[k].col \in 0..(dims.width - 1)
                           /\ entries[k].sheetId = s
                           /\ entries[k].value
                                 = getCellValue(engine, s, entries[k].row, entries[k].col)

\* the loaded content holds a formula, a second one was written in the last
\* column of the extent, both are listed; the other sheet was never loaded
C17_Witness ==
    /\ MapHas(engine, LoadedSheet)
    /\ ~MapHas(engine, "s2")
    /\ FormulaCells(engine, LoadedSheet) = {<<0, 1>>, <<1, 2>>}
    /\ Len(getAllFormulas(engine, LoadedSheet)) = 2
    /\ getAllFormulas(engine, "s2") = <<>>

------------------------------------------------------------------------------
(* VirtualGrid: drag to fill.  The fill handle of the selected cell starts  *)
(* a drag, the cells the pointer enters move its end, and the release       *)
(* copies the source cell over the rectangle, one onCellEdit call per cell. *)

MaxFills == 1         \* drags released in SpecFill

\* the grids a fill runs on: the source cell may hold a formula, a number,
\* text, or nothing
FillGrids ==
    { << <<Num(1), Str(<<"=", "A", "1">>)>>, <<Num(2), Num(7)>> >>,
      << <<Num(1), Null>>, <<Num(2), Str(<<"x">>)>> >> }

Cell(r, c) == [row |-> r, col |-> c]

\* the cells of the loop `for r = startRow..endRow, for c = startCol..endCol`
\* in the order the loop visits them, without the cell it skips
FillTargets(start, end) ==
    LET startRow == Min(start.row, end.row)
        endRow   == Max(start.row, end.row)
        startCol == Min(start.col, end.col)
        endCol   == Max(start.col, end.col)
        width    == endCol - startCol + 1
        height   == endRow - startRow + 1
        visited  == [k \in 1..(width * height) |->
                        Cell(startRow + ((k - 1) \div width),
                             startCol + ((k - 1) % width))]
    IN  SelectSeq(visited, LAMBDA t : ~(t.row = start.row /\ t.col = start.col))

\* the onCellEdit calls of handleMouseUp: sourceFormula when it is truthy,
\* String(sourceValue) otherwise
FillCalls(E, sheetId, data, start, end) ==
    LET f == getFormula(E, sheetId, start.row, start.col)
        value == IF Truthy(f) THEN f.s ELSE ToText(CellAt(data, start.row, start.col))
        targets == FillTargets(start, end)
    IN  [k \in 1..Len(targets) |->
            [row |-> targets[k].row, col |-> targets[k].col, value |-> value]]

\* onCellEdit(r, c, value): the handler runs up to its first await.  It reads
\* schema and gridData of the render the drag was released in, the registry
\* as the calls before it left it, and its setGridData applies to the data
\* the calls before it produced.
FillOnCellEdit(acc, sch, sheetId, data, call) ==
    LET r == handleCellEdit(acc.engine, sch, sheetId, data, acc.updates,
                            createCellAddress(call.row, call.col).display,
                            call.value)
    IN  [engine   |-> r.engine,
         gridData |-> IF Len(r.updates) > Len(acc.updates)
                      THEN SetGridCell(acc.gridData, call.row, call.col,
                                       r.updates[Len(r.updates)].value)
                      ELSE acc.gridData,
         updates  |-> r.updates,
         added    |-> acc.added \o r.added]

RECURSIVE RunFillCalls(_, _, _, _, _, _)
RunFillCalls(acc, sch, sheetId, data, calls, k) ==
    IF k > Len(calls) THEN acc
    ELSE RunFillCalls(FillOnCellEdit(acc, sch, sheetId, data, calls[k]),
                      sch, sheetId, data, calls, k + 1)

\* ---- the handlers of VirtualGrid ----------------------------------------

fillFrame == <<codecVars, backingColumnNames, formulaInput, lastOp, formulaBar,
               tabVars, workerVars>>

\* onClick of a cell
FillCellClick(r, c) ==
    /\ GridVisible
    /\ gridSelection' = Cell(r, c)
    /\ lastEvent' = Event("select", <<>>, <<>>, <<>>, 0)
    /\ UNCHANGED <<isDragging, dragStart, dragEnd, lastFill>>
    /\ UNCHANGED <<activeSheetId, schema, gridData, isLoading, selectedCell,
                   editingCell, focus, currentFormula, tables, loads, updates,
                   engine>>
    /\ UNCHANGED <<fillFrame, formulas>>

\* onMouseDown of the fill handle, which the selected cell shows
FillHandleMouseDown ==
    /\ GridVisible
    /\ gridSelection # NoCell
    /\ InGrid(gridSelection.row, gridSelection.col)
    /\ ~isDragging
    /\ lastFill.count < MaxFills
    /\ isDragging' = TRUE
    /\ dragStart' = gridSelection
    /\ dragEnd' = gridSelection
    /\ lastEvent' = Event("dragStart", <<>>, <<>>, <<>>, 0)
    /\ UNCHANGED <<gridSelection, lastFill>>
    /\ UNCHANGED <<activeSheetId, schema, gridData, isLoading, selectedCell,
                   editingCell, focus, currentFormula, tables, loads, updates,
                   engine>>
    /\ UNCHANGED <<fillFrame, formulas>>

\* onMouseEnter of a cell
FillMouseEnter(r, c) ==
    /\ GridVisible
    /\ isDragging
    /\ dragEnd' = Cell(r, c)
    /\ lastEvent' = Event("dragOver", <<>>, <<>>, <<>>, 0)
    /\ UNCHANGED <<gridSelection, isDragging, dragStart, lastFill>>
    /\ UNCHANGED <<activeSheetId, schema, gridData, isLoading, selectedCell,
                   editingCell, focus, currentFormula, tables, loads, updates,
                   engine>>
    /\ UNCHANGED <<fillFrame, formulas>>

\* handleMouseUp, the listener the effect installs while isDragging
FillMouseUp ==
    /\ GridVisible
    /\ isDragging
    /\ IF dragStart = NoCell \/ dragEnd = NoCell \/ activeSheetId = NoSheet
       THEN /\ UNCHANGED <<engine, gridData, updates, formulas>>
            /\ lastFill' = [lastFill EXCEPT !.count = @ + 1, !.source = NoCell,
                                            !.end = NoCell, !.calls = <<>>,
                                            !.data = gridData,
                                            !.sent = Len(updates)]
       ELSE LET calls == FillCalls(engine, activeSheetId, gridData,
                                   dragStart, dragEnd)
            IN  /\ AfterCellEdit(RunFillCalls(
                       [engine |-> engine, gridData |-> gridData,
                        updates |-> updates, added |-> <<>>],
                       schema, activeSheetId, gridData, calls, 1))
                /\ lastFill' = [count |-> lastFill.count + 1,
                                source |-> dragStart, end |-> dragEnd,
                                calls |-> calls, data |-> gridData,
                                sent |-> Len(updates)]
    /\ isDragging' = FALSE
    /\ dragStart' = NoCell
    /\ dragEnd' = NoCell
    /\ lastEvent' = Event("fill", <<>>, <<>>, <<>>, 0)
    /\ UNCHANGED gridSelection
    /\ UNCHANGED <<activeSheetId, schema, isLoading, selectedCell,
                   editingCell, focus, tables, loads>>
    /\ UNCHANGED fillFrame
    /\ RunFormulaBarEffect(currentFormula)

FillInit ==
    \E data \in FillGrids :
        /\ activeSheetId = LoadedSheet
        /\ schema = [loaded |-> TRUE, columns |-> AppColumnNames]
        /\ gridData = data
        /\ isLoading = FALSE
        /\ selectedCell = NoAddress
        /\ editingCell = NotEditing
        /\ focus = "body"
        /\ currentFormula = <<>>
        /\ tables = [s \in SheetIds |->
                        [rows |-> IF s = LoadedSheet THEN data ELSE SheetRows(s),
                         formulas |-> <<>>]]
        /\ loads = <<[FirstLoad EXCEPT !.rows = data]>>
        /\ updates = <<>>
        /\ lastEvent = NoEvent
        /\ FillIdle
        /\ PanelIdle
        /\ ShellLoaded
        /\ engine = initializeSheet(EmptyEngine, LoadedSheet, data)
        /\ backingColumnNames = AppColumnNames
        /\ formulaInput = NoFormula
        /\ lastOp = NoOp
        /\ colIndex = 0 /\ rowIndex = 0 /\ column = <<"A">>
        /\ ntcIndex = 0 /\ ntcResult = <<>> /\ ntcSteps = 0
        /\ address = NoAddress
        /\ parsed = NotParsed
        /\ ctnResult = NotComputed
        /\ ParseIdle

FillNext ==
    \/ \E r \in 0..(Len(gridData) - 1), c \in 0..(Len(schema.columns) - 1) :
          FillCellClick(r, c)
    \/ FillHandleMouseDown
    \/ \E r \in 0..(Len(gridData) - 1), c \in 0..(Len(schema.columns) - 1) :
          FillMouseEnter(r, c)
    \/ FillMouseUp
    \/ \E i \in 1..Len(updates), ok \in BOOLEAN : ServeUpdate(i, ok)
    \/ \E i \in 1..Len(updates) : DeliverUpdate(i)
    \/ \E i \in 1..Len(loads), ok \in BOOLEAN : ServeLoad(i, ok)
    \/ \E i \in 1..Len(loads) : DeliverLoad(i)

SpecFill == FillInit /\ [][FillNext]_vars

------------------------------------------------------------------------------
(* Claims about drag to fill *)

\* the rectangle two corners span, in any order of the corners
RectangleOf(a, b) ==
    {Cell(r, c) : r \in Min(a.row, b.row)..Max(a.row, b.row),
                  c \in Min(a.col, b.col)..Max(a.col, b.col)}

\* the last event released a drag that had a source and an end
FillReleased == lastEvent.type = "fill" /\ lastFill.source # NoCell

\* C24: when a drag from source cell S is released over the rectangle R that
\* S and the drag's end span (the corners in any order), exactly one edit is
\* issued for each cell of R other than S and none for S or for a cell outside
\* R, each edit being one onCellEdit call that sends one request to the
\* store; each edit carries the formula text of S unchanged when S holds a
\* formula and the text of S's literal value otherwise (nothing for an empty
\* cell); and the drag state is cleared afterwards.
C24_FillEditsEachTargetOnce ==
    FillReleased
    => LET S == lastFill.source
           R == RectangleOf(S, lastFill.end)
           calls == lastFill.calls
           held == CellAt(lastFill.data, S.row, S.col)
       IN  /\ {Cell(calls[k].row, calls[k].col) : k \in 1..Len(calls)} = R \ {S}
           /\ Len(calls) = Cardinality(R) - 1
           /\ Len(updates) = lastFill.sent + Len(calls)
           /\ \A k \in 1..Len(calls) :
                 /\ updates[lastFill.sent + k].column = schema.columns[calls[k].col + 1]
                 /\ calls[k].value = IF isFormula(held) THEN held.s
                                     ELSE LiteralText(held)
           /\ ~isDragging /\ dragStart = NoCell /\ dragEnd = NoCell

\* the request the k-th call of the last fill sent
FillRequest(k) == updates[lastFill.sent + k]

\* a request of the last fill failed, and every request and every load it
\* led to has run to its end, the loads with every response received
FillSettledAfterFailure ==
    /\ lastFill.count = 1 /\ lastFill.source # NoCell
    /\ Len(updates) >= lastFill.sent + Len(lastFill.calls)
    /\ \E i \in 1..Len(loads) : loads[i].trigger = "writeFailed"
    /\ \A i \in 1..Len(updates) : updates[i].state = "done"
    /\ \A i \in 1..Len(loads) : loads[i].phase = "done" /\ loads[i].ok

\* C25: when a persistence call of a fill fails, the fill is not undone: a
\* request was still issued for every target cell of the range, and once the
\* fill has settled every target cell whose write the store took (the store
\* holds its filled value) shows that filled value in the grid as well.
C25_FailedFillKeepsWrittenCells ==
    FillSettledAfterFailure
    => /\ Len(updates) = lastFill.sent + Len(lastFill.calls)
       /\ \A k \in 1..Len(lastFill.calls) :
             LET row == lastFill.calls[k].row
                 col == lastFill.calls[k].col
             IN  /\ FillRequest(k).column = schema.columns[col + 1]
                 /\ (CellAt(tables[LoadedSheet].rows, row, col) = FillRequest(k).value)
                       => (CellAt(gridData, row, col) = FillRequest(k).value)

------------------------------------------------------------------------------
(* The parsers and validators of the codec on arbitrary text, and the range *)
(* functions on arbitrary corners.                                          *)

\* texts of up to MaxTextLen characters over an upper-case letter, a
\* lower-case letter, the digits 0 and 1, and the colon
MaxTextLen == 5
TextAlphabet == <<"A", "a", "0", "1", ":">>

RECURSIVE TextsOfLength(_)
TextsOfLength(n) ==
    IF n = 0 THEN {<<>>}
    ELSE {<<TextAlphabet[i]>> \o t : i \in 1..Len(TextAlphabet),
                                      t \in TextsOfLength(n - 1)}

TextInputs == UNION {TextsOfLength(n) : n \in 0..MaxTextLen}

\* corner and probe cells with indices 0..MaxCornerIndex
MaxCornerIndex == 2
CornerCells == {<<r, c>> : r \in 0..MaxCornerIndex, c \in 0..MaxCornerIndex}
CornerInputs == {<<a, b, p>> : a \in CornerCells, b \in CornerCells, p \in CornerCells}

\* the ExcelRange built from corners a and b
RangeOf(a, b) == createRange(createCellAddress(a[1], a[2]),
                             createCellAddress(b[1], b[2]))

\* ---- App and ExcelGrid: letters for column positions --------------------

\* a schema of n columns; the name of the column at index i is "c" and i
WideColumnName(i) == <<"c">> \o NatToString(i)
WideColumns(n) == [k \in 1..n |-> WideColumnName(k - 1)]

\* ExcelGrid: the letter shown in the header of column colIndex
HeaderLetter(i) == numberToColumn(i)

\* schema.columns[colIndex]?.name, undefined written <<>>
ColumnNameAt(columns, i) ==
    IF i >= 0 /\ i < Len(columns) THEN columns[i + 1] ELSE <<>>

\* handleColumnFormula: columnName for the column identifier it is given
ColumnFormulaTarget(col, columns) ==
    IF Len(col) = 1 /\ IsUpper(col[1])
    THEN ColumnNameAt(columns, CharCodeAt(col[1]) - 65)
    ELSE col

\* handleColumnFormula: what the replace callback returns for one match of
\* /([A-Z]+)(\d+)/g with groups col and row
ColumnFormulaReference(col, row, columns) ==
    LET colName == ColumnNameAt(columns, CharCodeAt(col[1]) - 65)
    IN  IF colName # <<>> THEN colName ELSE col \o row

ParseInit ==
    /\ \/ inputText \in TextInputs /\ corners = NoCorners
          /\ colIndex = 0 /\ rowIndex = 0
       \/ inputText = <<>> /\ corners \in CornerInputs
          /\ colIndex = 0 /\ rowIndex = 0
       \/ inputText = <<>> /\ corners = NoCorners
          /\ colIndex \in 0..MaxColIndex /\ rowIndex \in 0..MaxRowIndex
    /\ textOp = NoTextOp
    /\ column = <<"A">>
    /\ ntcIndex = 0 /\ ntcResult = <<>> /\ ntcSteps = 0
    /\ address = NoAddress
    /\ parsed = NotParsed
    /\ ctnResult = NotComputed
    /\ EngineIdle
    /\ AppIdle

parseFrame == <<colIndex, rowIndex, column, ntcIndex, ntcResult, ntcSteps,
                address, parsed, ctnResult, inputText, corners>>

\* parseCellAddress(inputText)
ParseCellAddressText ==
    /\ textOp.op = "none" /\ corners = NoCorners
    /\ textOp' = [op |-> "parseCellAddress", result |-> parseCellAddress(inputText)]
    /\ UNCHANGED <<parseFrame, engineVars, appVars>>

\* isValidCellAddress(inputText)
IsValidCellAddressText ==
    /\ textOp.op = "none" /\ corners = NoCorners
    /\ textOp' = [op |-> "isValidCellAddress",
                  result |-> isValidCellAddress(inputText)]
    /\ UNCHANGED <<parseFrame, engineVars, appVars>>

\* columnToNumber(inputText): the function has no throw statement
ColumnToNumberText ==
    /\ textOp.op = "none" /\ corners = NoCorners
    /\ textOp' = [op |-> "columnToNumber",
                  result |-> [threw |-> FALSE, value |-> columnToNumber(inputText)]]
    /\ UNCHANGED <<parseFrame, engineVars, appVars>>

\* parseRange(inputText)
ParseRangeText ==
    /\ textOp.op = "none" /\ corners = NoCorners
    /\ textOp' = [op |-> "parseRange", result |-> parseRange(inputText)]
    /\ UNCHANGED <<parseFrame, engineVars, appVars>>

\* isValidRange(inputText)
IsValidRangeText ==
    /\ textOp.op = "none" /\ corners = NoCorners
    /\ textOp' = [op |-> "isValidRange", result |-> isValidRange(inputText)]
    /\ UNCHANGED <<parseFrame, engineVars, appVars>>

\* parseRange(range.display) of the range built from the two corners
ParseRangeOfCorners ==
    /\ textOp.op = "none" /\ corners # NoCorners
    /\ textOp' = [op |-> "rangeCoords",
                  result |-> parseRange(RangeOf(corners[1], corners[2]).display)]
    /\ UNCHANGED <<parseFrame, engineVars, appVars>>

\* getCellsInRange of the range built from the two corners
GetCellsInRange ==
    /\ textOp.op = "none" /\ corners # NoCorners
    /\ textOp' = [op |-> "getCellsInRange",
                  result |-> getCellsInRange(RangeOf(corners[1], corners[2]))]
    /\ UNCHANGED <<parseFrame, engineVars, appVars>>

\* isCellInRange of the probe cell and the range built from the two corners
IsCellInRange ==
    /\ textOp.op = "none" /\ corners # NoCorners
    /\ textOp' = [op |-> "isCellInRange",
                  result |-> isCellInRange(
                                 createCellAddress(corners[3][1], corners[3][2]),
                                 RangeOf(corners[1], corners[2]))]
    /\ UNCHANGED <<parseFrame, engineVars, appVars>>

\* the header cell of column colIndex is rendered
RenderColumnHeader ==
    /\ textOp.op = "none" /\ corners = NoCorners
    /\ textOp' = [op |-> "header", result |-> HeaderLetter(colIndex)]
    /\ UNCHANGED <<parseFrame, engineVars, appVars>>

\* loadSheetData restores a formula saved for (rowIndex, colIndex)
RestoreFormulaAddress ==
    /\ textOp.op = "none" /\ corners = NoCorners
    /\ textOp' = [op |-> "restored",
                  result |-> RestoredCellAddress(rowIndex, colIndex)]
    /\ UNCHANGED <<parseFrame, engineVars, appVars>>

\* handleColumnFormula is given the letters of column colIndex as its column
ColumnFormulaOnLetter ==
    /\ textOp.op = "none" /\ corners = NoCorners
    /\ textOp' = [op |-> "columnFormulaTarget",
                  result |-> ColumnFormulaTarget(numberToColumn(colIndex),
                                                 WideColumns(MaxColIndex + 1))]
    /\ UNCHANGED <<parseFrame, engineVars, appVars>>

\* handleColumnFormula translates a formula that refers to a cell of column
\* colIndex
ColumnFormulaOnReference ==
    /\ textOp.op = "none" /\ corners = NoCorners
    /\ textOp' = [op |-> "columnFormulaReference",
                  result |-> ColumnFormulaReference(numberToColumn(colIndex),
                                                    NumberToString(rowIndex + 1),
                                                    WideColumns(MaxColIndex + 1))]
    /\ UNCHANGED <<parseFrame, engineVars, appVars>>

\* createCellAddress(rowIndex, colIndex)
CreateCellAddressAt ==
    /\ textOp.op = "none" /\ corners = NoCorners
    /\ textOp' = [op |-> "createCellAddress",
                  result |-> createCellAddress(rowIndex, colIndex)]
    /\ UNCHANGED <<parseFrame, engineVars, appVars>>

\* createRangeFromCoords of the two corners: both addresses are built by
\* createCellAddress and handed to createRange
CreateRangeOfCorners ==
    /\ textOp.op = "none" /\ corners # NoCorners
    /\ textOp' = [op |-> "createRange",
                  result |-> RangeOf(corners[1], corners[2])]
    /\ UNCHANGED <<parseFrame, engineVars, appVars>>

ParseNext ==
    \/ CreateCellAddressAt
    \/ CreateRangeOfCorners
    \/ RenderColumnHeader
    \/ RestoreFormulaAddress
    \/ ColumnFormulaOnLetter
    \/ ColumnFormulaOnReference
    \/ ParseCellAddressText
    \/ IsValidCellAddressText
    \/ ColumnToNumberText
    \/ ParseRangeText
    \/ IsValidRangeText
    \/ ParseRangeOfCorners
    \/ GetCellsInRange
    \/ IsCellInRange

SpecParse == ParseInit /\ [][ParseNext]_vars

------------------------------------------------------------------------------
(* Claims on parsing, validation and ranges *)

SetOfSeq(seq) == {seq[k] : k \in 1..Len(seq)}

\* C26: a range built from two corner cells reports the same bounds (first
\* and last row, first and last column), yields the same set of cells from
\* getCellsInRange and gives the same isCellInRange answer for every cell as
\* the range built from the same corners in the other order.
C26_RangeIgnoresCornerOrder ==
    corners # NoCorners
    => LET swapped == RangeOf(corners[2], corners[1])
           probe   == createCellAddress(corners[3][1], corners[3][2])
       IN  /\ (textOp.op = "rangeCoords")
                 => /\ textOp.result.error = "none"
                    /\ textOp.result = parseRange(swapped.display)
           /\ (textOp.op = "getCellsInRange")
                 => SetOfSeq(textOp.result) = SetOfSeq(getCellsInRange(swapped))
           /\ (textOp.op = "isCellInRange")
                 => (textOp.result <=> isCellInRange(probe, swapped))

\* the texts that match ^[A-Z]+[1-9][0-9]*$
IsCellAddressText(text) ==
    /\ AddressMatches(text)
    /\ text[RegexLetterRun(text) + 1] # "0"

\* C27: parseCellAddress fails with the invalid-address error for every text
\* that does not match ^[A-Z]+[1-9][0-9]*$ (a row part of 0 or with a leading
\* zero, lower-case letters, the empty text) and never returns a negative row
\* index; isValidCellAddress accepts exactly the texts parseCellAddress
\* accepts.
C27_ParseRejectsMalformedAddress ==
    /\ (textOp.op = "parseCellAddress")
          => /\ ~IsCellAddressText(inputText) => textOp.result.threw
             /\ ~textOp.result.threw => textOp.result.rowIndex >= 0
    /\ (textOp.op = "isValidCellAddress")
          => (textOp.result <=> ~parseCellAddress(inputText).threw)

\* the texts made of one or more of the letters A-Z
IsColumnLetters(text) == Len(text) >= 1 /\ \A k \in 1..Len(text) : IsUpper(text[k])

\* C28: columnToNumber fails with the invalid-address error when its argument
\* is empty or contains a character outside A-Z, and an index it returns is
\* never negative (an index of the model is always an integer).
C28_ColumnToNumberRejectsNonLetters ==
    (textOp.op = "columnToNumber")
    => /\ ~IsColumnLetters(inputText) => textOp.result.threw
       /\ ~textOp.result.threw => textOp.result.value >= 0

\* the texts made of two cell addresses joined by one colon
IsRangeText(text) ==
    /\ Len(Split(text)) = 2
    /\ IsCellAddressText(Split(text)[1])
    /\ IsCellAddressText(Split(text)[2])

\* C29: parseRange accepts exactly the texts made of two valid cell addresses
\* joined by one ":"; a text with no colon, with more than one colon or with
\* an invalid endpoint fails with the invalid-range error; and isValidRange
\* is false for exactly the texts parseRange rejects.
C29_ParseRangeRejectsMalformed ==
    /\ (textOp.op = "parseRange")
          => IF IsRangeText(inputText)
             THEN textOp.result.error = "none"
             ELSE textOp.result.error = "Invalid range"
    /\ (textOp.op = "isValidRange")
          => /\ textOp.result <=> IsRangeText(inputText)
             /\ textOp.result <=> (parseRange(inputText).error = "none")

\* C30: the backing column at index i goes with the letters numberToColumn(i)
\* wherever a position is turned into letters or letters into a column, for
\* every i including i >= 26: the grid header of column i shows those
\* letters, the cell address recorded for a formula restored at (r, i) is
\* those letters followed by r + 1, and a column formula translates those
\* letters, as its target and inside its text, to the name of column i.
C30_LettersAlignedWithColumns ==
    LET letters == numberToColumn(colIndex)
        name    == WideColumnName(colIndex)
    IN  /\ (textOp.op = "header") => textOp.result = letters
        /\ (textOp.op = "restored")
              => textOp.result = createCellAddress(rowIndex, colIndex).display
        /\ (textOp.op = "columnFormulaTarget") => textOp.result = name
        /\ (textOp.op = "columnFormulaReference") => textOp.result = name

\* an address as createCellAddress(r, c) must leave it
WellFormedAddress(a, r, c) ==
    /\ a.display = a.col \o NumberToString(a.row)
    /\ a.row = r + 1 /\ a.row >= 1
    /\ IsColumnLetters(a.col)
    /\ a.col = numberToColumn(c)

\* C31: every address createCellAddress(r, c) produces for r, c >= 0 has
\* display equal to col followed by row, row = r + 1 >= 1, and col a
\* non-empty text over A-Z; every range createRange produces has display
\* equal to its start's display, a colon, and its end's display.
C31_AddressesAndRangesWellFormed ==
    /\ (textOp.op = "createCellAddress")
          => WellFormedAddress(textOp.result, rowIndex, colIndex)
    /\ (textOp.op = "createRange")
          => /\ WellFormedAddress(textOp.result.start, corners[1][1], corners[1][2])
             /\ WellFormedAddress(textOp.result.end, corners[2][1], corners[2][2])
             /\ textOp.result.display
                   = textOp.result.start.display \o <<":">> \o textOp.result.end.display

\* the range from C3 to A1 was created: its display is "C3:A1"
C31_Witness ==
    /\ textOp.op = "createRange"
    /\ corners[1] = <<2, 2>> /\ corners[2] = <<0, 0>>
    /\ textOp.result.display = <<"C", "3", ":", "A", "1">>

------------------------------------------------------------------------------
(* The formula bar and the edit input when a blur follows a commit:         *)
(* FormulaBar (handleClick, onChange, handleKeyDown, handleSubmit,          *)
(* handleCancel, onBlur) over App.handleFormulaChange / handleFormulaSubmit, *)
(* and ExcelGrid's edit input.                                              *)

\* what is outside the App and its grid when the formula bar handles an event
barFrame == <<codecVars, backingColumnNames, formulaInput, lastOp, fillVars,
              tabVars, workerVars>>

\* the formula bar once handleClick opened its input on this text
BarOpen(text) == [isEditing |-> TRUE, editingFormula |-> text]

\* the formula the bar showed when the edit in it began, carried by the bar's
\* events: the click records it, every later event of the edit passes it on
FormulaBeforeEdit ==
    IF lastEvent.type = "barClick" THEN lastEvent.value ELSE lastEvent.prior

\* App.handleFormulaSubmit(formula)
handleFormulaSubmit(formula) ==
    IF selectedCell # NoAddress
    THEN OnCellEdit(selectedCell.display, formula)
    ELSE UNCHANGED <<engine, gridData, updates, formulas>>

\* onCellEdit(cellAddress, newValue) called twice from the handlers of one
\* render: both calls read schema, activeSheetId and gridData of that render;
\* the registry, the functional setGridData, the metadata store and the
\* requests of the second call follow those of the first
TwiceOnCellEdit(cellAddress, newValue) ==
    LET r1 == handleCellEdit(engine, schema, activeSheetId, gridData, updates,
                             cellAddress, newValue)
        r2 == handleCellEdit(r1.engine, schema, activeSheetId, gridData,
                             r1.updates, cellAddress, newValue)
    IN  AfterCellEdit([r2 EXCEPT !.added = r1.added \o r2.added])

\* clicks on cells while the bar's input does not hold the focus
BarCellClick(r, c) ==
    /\ focus # "barInput"
    /\ handleCellClick(r, c)

\* FormulaBar.handleClick: the bar shows its input, which takes the focus in
\* the timeout; its buffer is the formula shown
BarClick ==
    /\ schema.loaded
    /\ ~formulaBar.isEditing
    /\ focus # "cellInput"
    /\ formulaBar' = BarOpen(currentFormula)
    /\ focus' = "barInput"
    /\ lastEvent' = Event("barClick", <<>>, currentFormula, <<>>, 0)
    /\ UNCHANGED <<activeSheetId, schema, gridData, isLoading, selectedCell,
                   editingCell, currentFormula, tables, loads, updates,
                   engine, formulas>>
    /\ UNCHANGED barFrame

\* the texts a user leaves in the bar's input
BarBuffers == {<<"5">>, <<"=", "B", "B", "*", "B", "B">>}

\* onChange of the bar's input: setEditingFormula and onFormulaChange, which
\* is setCurrentFormula.  The keydown of a typed character reaches the
\* window listener of the grid first, which cancels it when a cell is
\* selected and no edit is open, so the input changes only otherwise.
BarChange(text) ==
    /\ focus = "barInput"
    /\ formulaBar.isEditing
    /\ ~KeyDownGuard
    /\ text # formulaBar.editingFormula
    /\ formulaBar' = BarOpen(text)
    /\ currentFormula' = text
    /\ lastEvent' = Event("barChange", <<>>, text, FormulaBeforeEdit, 0)
    /\ UNCHANGED <<activeSheetId, schema, gridData, isLoading, selectedCell,
                   editingCell, focus, tables, loads, updates, engine, formulas>>
    /\ UNCHANGED barFrame

\* a character typed in the bar while a cell is selected and no edit is open:
\* the window listener of the grid takes the key and opens an edit of the
\* selected cell; the edit input mounts with the focus, and the bar's input
\* loses it: onBlur={handleSubmit}
BarKeyType(key) ==
    /\ focus = "barInput"
    /\ formulaBar.isEditing
    /\ KeyDownGuard
    /\ CellRendered(selectedCell)
    /\ Len(updates) < MaxGridCommits
    /\ editingCell' = [active |-> TRUE, address |-> selectedCell, value |-> <<key>>]
    /\ focus' = "cellInput"
    /\ handleFormulaSubmit(formulaBar.editingFormula)
    /\ formulaBar' = BarClosed
    /\ lastEvent' = Event("barType", selectedCell.display, <<key>>,
                          FormulaBeforeEdit, 0)
    /\ UNCHANGED <<activeSheetId, schema, isLoading, selectedCell, tables, loads>>
    /\ UNCHANGED barFrame
    /\ RunFormulaBarEffect(currentFormula)

\* FormulaBar.handleKeyDown: Enter, which is handleSubmit
BarEnter ==
    /\ focus = "barInput"
    /\ formulaBar.isEditing
    /\ Len(updates) < MaxGridCommits
    /\ handleFormulaSubmit(formulaBar.editingFormula)
    /\ formulaBar' = BarClosed
    /\ focus' = "body"
    /\ lastEvent' = Event("barEnter", selectedCell.display,
                          formulaBar.editingFormula, FormulaBeforeEdit, 0)
    /\ UNCHANGED <<activeSheetId, schema, isLoading, selectedCell, editingCell,
                   tables, loads>>
    /\ UNCHANGED barFrame
    /\ IF Len(updates') > Len(updates)
       THEN RunFormulaBarEffect(currentFormula)
       ELSE UNCHANGED currentFormula

\* Enter in the bar's input, then the blur of that input before the bar has
\* rendered again: handleKeyDown and onBlur of the same render both run
\* handleSubmit, each with the editingFormula and the onFormulaSubmit of
\* that render
BarEnterBlur ==
    /\ focus = "barInput"
    /\ formulaBar.isEditing
    /\ Len(updates) < MaxGridCommits
    /\ IF selectedCell # NoAddress
       THEN TwiceOnCellEdit(selectedCell.display, formulaBar.editingFormula)
       ELSE UNCHANGED <<engine, gridData, updates, formulas>>
    /\ formulaBar' = BarClosed
    /\ focus' = "body"
    /\ lastEvent' = Event("barEnterBlur", selectedCell.display,
                          formulaBar.editingFormula, FormulaBeforeEdit, 0)
    /\ UNCHANGED <<activeSheetId, schema, isLoading, selectedCell, editingCell,
                   tables, loads>>
    /\ UNCHANGED barFrame
    /\ IF Len(updates') > Len(updates)
       THEN RunFormulaBarEffect(currentFormula)
       ELSE UNCHANGED currentFormula

\* FormulaBar.handleKeyDown: Escape, which is handleCancel:
\* setEditingFormula(formula) with the formula prop, and setIsEditing(false)
BarEscape ==
    /\ focus = "barInput"
    /\ formulaBar.isEditing
    /\ formulaBar' = BarClosed
    /\ focus' = "body"
    /\ lastEvent' = Event("barEscape", selectedCell.display,
                          formulaBar.editingFormula, FormulaBeforeEdit, 0)
    /\ UNCHANGED <<activeSheetId, schema, gridData, isLoading, selectedCell,
                   editingCell, currentFormula, tables, loads, updates,
                   engine, formulas>>
    /\ UNCHANGED barFrame

\* the bar's input loses the focus to something that takes none:
\* onBlur={handleSubmit}
BarBlur ==
    /\ focus = "barInput"
    /\ formulaBar.isEditing
    /\ Len(updates) < MaxGridCommits
    /\ handleFormulaSubmit(formulaBar.editingFormula)
    /\ formulaBar' = BarClosed
    /\ focus' = "body"
    /\ lastEvent' = Event("barBlur", selectedCell.display,
                          formulaBar.editingFormula, FormulaBeforeEdit, 0)
    /\ UNCHANGED <<activeSheetId, schema, isLoading, selectedCell, editingCell,
                   tables, loads>>
    /\ UNCHANGED barFrame
    /\ IF Len(updates') > Len(updates)
       THEN RunFormulaBarEffect(currentFormula)
       ELSE UNCHANGED currentFormula

\* handleEditKeyDown for Enter or Tab, then the blur of the edit input before
\* ExcelGrid has rendered again: the key handler and onBlur of the same
\* render both run handleEditComplete(true), each finding the editingCell of
\* that render
EditCommitBlur(key) ==
    /\ focus = "cellInput"
    /\ editingCell.active
    /\ Len(updates) < MaxGridCommits
    /\ TwiceOnCellEdit(editingCell.address.display, editingCell.value)
    /\ editingCell' = NotEditing
    /\ selectedCell' =
          IF selectedCell # NoAddress
          THEN LET coords == parseCellAddress(selectedCell.display)
                   newCol == coords.colIndex + 1
               IN  IF key = "Enter"
                   THEN createCellAddress(Min(Len(gridData) - 1, coords.rowIndex + 1),
                                          coords.colIndex)
                   ELSE IF newCol >= Len(schema.columns)
                   THEN createCellAddress(coords.rowIndex + 1, 0)
                   ELSE createCellAddress(coords.rowIndex, newCol)
          ELSE selectedCell
    /\ focus' = "body"
    /\ lastEvent' = Event(IF key = "Enter" THEN "EnterBlur" ELSE "TabBlur",
                          editingCell.address.display, editingCell.value,
                          OpenSession, 0)
    /\ UNCHANGED <<activeSheetId, schema, isLoading, tables, loads>>
    /\ UNCHANGED editFrame
    /\ RunFormulaBarEffect(currentFormula)

BarNext ==
    \/ \E r \in 0..(Len(gridData) - 1), c \in 0..(Len(schema.columns) - 1) :
          BarCellClick(r, c)
    \/ \E r \in 0..(Len(gridData) - 1), c \in 0..(Len(schema.columns) - 1) :
          handleCellDoubleClick(r, c)
    \/ \E text \in EditBuffers : EditChange(text)
    \/ EditEnter
    \/ EditEscape
    \/ EditTab
    \/ EditBlur
    \/ \E key \in {"Enter", "Tab"} : EditCommitBlur(key)
    \/ BarClick
    \/ \E text \in BarBuffers : BarChange(text)
    \/ \E key \in TypedKeys : BarKeyType(key)
    \/ BarEnter
    \/ BarEnterBlur
    \/ BarEscape
    \/ BarBlur

SpecBar == AppInit /\ [][BarNext]_vars

\* C33: an edit session produces at most one commit: no step, a commit by
\* Enter or Tab followed by the blur of the same input included, sends more
\* than one update request, in the grid's edit input and in the formula bar.
C33_OneCommitPerSession ==
    [][Len(updates') <= Len(updates) + 1]_vars

\* C37: Escape in the formula bar after an edit was started and text typed
\* leaves the bar showing the formula it showed before the edit began, and
\* submits nothing to the cell.
C37_EscapeRestoresFormula ==
    [][lastEvent'.type = "barEscape"
          => /\ currentFormula' = FormulaBeforeEdit
             /\ updates' = updates
             /\ gridData' = gridData
             /\ engine' = engine]_vars

------------------------------------------------------------------------------
(* Switching sheets: the tabs call setActiveSheetId, and the effect on       *)
(* [activeSheetId, sheets] loads the sheet that became active.              *)

MaxSwitches == 2      \* times the active sheet is switched in SpecSwitch

\* onSheetChange={setActiveSheetId} and the load effect of the next render
SelectSheet(sheetId) ==
    /\ sheetId # activeSheetId
    /\ Len(loads) < 1 + MaxSwitches
    /\ activeSheetId' = sheetId
    /\ loadSheetData(sheetId, "effect")
    /\ lastEvent' = Event("switch", <<>>, <<>>, <<>>, 0)
    /\ UNCHANGED <<engine, tables, updates>>
    /\ UNCHANGED appFrame

SwitchNext ==
    \/ \E sheetId \in SheetIds : SelectSheet(sheetId)
    \/ \E i \in 1..Len(loads), ok \in BOOLEAN : ServeLoad(i, ok)
    \/ \E i \in 1..Len(loads) : DeliverLoad(i)

SpecSwitch == AppInit /\ [][SwitchNext]_vars

\* C34: when the active sheet was switched while a load of the sheet active
\* before was outstanding, then once every load has resolved the grid data
\* and the schema are those of the active sheet; and the loading flag is
\* false only while no load is outstanding.
C34_SwitchShowsActiveSheet ==
    /\ \A j \in 1..Len(loads) : \A i \in loads[j].overlapped :
          ( /\ j = Len(loads)
            /\ loads[i].sheetId # loads[j].sheetId
            /\ \A k \in 1..Len(loads) : loads[k].phase = "done" /\ loads[k].ok )
          => /\ activeSheetId = loads[j].sheetId
             /\ gridData = tables[activeSheetId].rows
             /\ schema = [loaded |-> TRUE, columns |-> AppColumnNames]
    /\ ~isLoading => \A k \in 1..Len(loads) : Resolved(loads[k])

------------------------------------------------------------------------------
(* Restoring saved formulas: a sheet whose table holds saved formulas, some  *)
(* of a row or a column the sheet does not have, is loaded again.            *)

MaxSavedFormulas == 2   \* saved formulas of the table in SpecRestore

\* saved formulas {rowId, column, formula}: of a cell of the sheet, of a row
\* key kept as text, of a row the sheet does not have, of a column the schema
\* does not have
SavedFormulaEntries ==
    { [rowId |-> Num(1), column |-> <<"B", "B">>,
       formula |-> Str(<<"=", "A", "+", "A">>)],
      [rowId |-> Str(<<"2">>), column |-> <<"B", "B">>,
       formula |-> Str(<<"=", "A", "*", "A">>)],
      [rowId |-> Num(9), column |-> <<"B", "B">>,
       formula |-> Str(<<"=", "A", "+", "A">>)],
      [rowId |-> Num(2), column |-> <<"C">>,
       formula |-> Str(<<"=", "A", "+", "A">>)] }

\* the table keeps one saved formula for a cell
SavedFormulaLists ==
    {saved \in UNION {[1..n -> SavedFormulaEntries] : n \in 0..MaxSavedFormulas} :
        \A a, b \in 1..Len(saved) : saved[a] = saved[b] => a = b}

RestoreInit ==
    \E saved \in SavedFormulaLists :
        /\ activeSheetId = LoadedSheet
        /\ schema = [loaded |-> TRUE, columns |-> AppColumnNames]
        /\ gridData = SheetRows(LoadedSheet)
        /\ isLoading = FALSE
        /\ selectedCell = NoAddress
        /\ editingCell = NotEditing
        /\ focus = "body"
        /\ currentFormula = <<>>
        /\ tables = [s \in SheetIds |->
                        [rows |-> SheetRows(s),
                         formulas |-> IF s = LoadedSheet THEN saved ELSE <<>>]]
        /\ loads = <<FirstLoad>>
        /\ updates = <<>>
        /\ lastEvent = NoEvent
        /\ FillIdle
        /\ formulaBar = BarClosed
        /\ ShellLoaded
        /\ formulas = AddFormulas(<<>>,
                          RestoredMetadata(LoadedSheet, saved, SheetRows(LoadedSheet),
                                           AppColumnNames, 1))
        /\ engine = RestoreFormulas(
                       initializeSheet(EmptyEngine, LoadedSheet, SheetRows(LoadedSheet)),
                       LoadedSheet, saved, SheetRows(LoadedSheet), AppColumnNames, 1)
        /\ backingColumnNames = AppColumnNames
        /\ formulaInput = NoFormula
        /\ lastOp = NoOp
        /\ colIndex = 0 /\ rowIndex = 0 /\ column = <<"A">>
        /\ ntcIndex = 0 /\ ntcResult = <<>> /\ ntcSteps = 0
        /\ address = NoAddress
        /\ parsed = NotParsed
        /\ ctnResult = NotComputed
        /\ ParseIdle

RestoreNext ==
    \/ SheetsChanged
    \/ \E i \in 1..Len(loads), ok \in BOOLEAN : ServeLoad(i, ok)
    \/ \E i \in 1..Len(loads) : DeliverLoad(i)

SpecRestore == RestoreInit /\ [][RestoreNext]_vars

\* the saved formulas whose row key is a key of the rows and whose column is
\* a column of the schema
FoundFormulas(saved, rows, columnNames) ==
    SelectSeq(saved,
        LAMBDA f : /\ \E k \in 1..Len(rows) : ToText(rows[k][1]) = ToText(f.rowId)
                   /\ \E c \in 1..Len(columnNames) : columnNames[c] = f.column)

\* the registry once each of these formulas, in order, is set at the index
\* of the row with its key and the index of its column
RECURSIVE WithFormulasSet(_, _, _, _, _)
WithFormulasSet(E, sheetId, found, rows, columnNames) ==
    IF found = <<>> THEN E
    ELSE LET f == Head(found)
             r == CHOOSE k \in 1..Len(rows) : ToText(rows[k][1]) = ToText(f.rowId)
             c == CHOOSE k \in 1..Len(columnNames) : columnNames[k] = f.column
         IN  WithFormulasSet(setCellValue(E, sheetId, r - 1, c - 1, f.formula,
                                          columnNames),
                             sheetId, Tail(found), rows, columnNames)

\* C35: a load first initializes the registry with the fetched rows; then
\* every saved formula whose row key is among the loaded rows and whose
\* column is in the schema is set at (index of that row, index of that
\* column), the others are skipped; a failed fetch of the formulas leaves
\* the loaded rows, the schema and the registry as they were.  The columns
\* are those of the schema the load fetched, AppColumnNames for every table.
C35_LoadRestoresFormulas ==
    [][\A i \in 1..Len(loads) :
          /\ (loads[i].phase = "query" /\ loads'[i].phase = "formulas")
                => /\ gridData' = loads[i].resp
                   /\ engine' = initializeSheet(engine, loads[i].sheetId,
                                                loads[i].resp)
          /\ (loads[i].phase = "formulas" /\ loads'[i].phase = "done")
                => /\ gridData' = gridData
                   /\ schema' = schema
                   /\ engine' =
                        IF loads[i].ok
                        THEN WithFormulasSet(
                                 engine, loads[i].sheetId,
                                 FoundFormulas(loads[i].resp, loads[i].rows,
                                               AppColumnNames),
                                 loads[i].rows, AppColumnNames)
                        ELSE engine
      ]_vars

\* a reload is done whose saved formulas were one of a row the sheet does not
\* have, skipped, and then one of cell BB1, which holds its formula
C35_Witness ==
    /\ lastEvent.type = "loadDone"
    /\ Len(loads) = 2
    /\ loads[2].ok
    /\ Len(tables[LoadedSheet].formulas) = 2
    /\ tables[LoadedSheet].formulas[1].rowId = Num(9)
    /\ tables[LoadedSheet].formulas[2].rowId = Num(1)
    /\ gridData = tables[LoadedSheet].rows
    /\ getFormula(engine, LoadedSheet, 0, 1) # Null
    /\ getFormula(engine, LoadedSheet, 1, 1) = Null

\* C36: whatever cells were committed and sheets loaded, the formula metadata
\* store holds at most one entry of type 'cell' for a sheet and a cell
\* address.
C36_OneEntryPerCell ==
    \A a, b \in 1..Len(formulas) :
        ( /\ formulas[a].formulaType = "cell"
          /\ formulas[b].formulaType = "cell"
          /\ formulas[a].sheetId = formulas[b].sheetId
          /\ formulas[a].cellAddress = formulas[b].cellAddress )
        => a = b

------------------------------------------------------------------------------
(* The sheet tabs: App.handleDeleteSheet, with the tab clicks that switch    *)
(* the active sheet and the loads the effect on [activeSheetId, sheets]     *)
(* starts.                                                                  *)

MaxDeletes == 2       \* delete requests sent in SpecTabs
MaxTabClicks == 1     \* tab clicks that switch the active sheet in SpecTabs

\* the elements of a list
Range(list) == {list[k] : k \in 1..Len(list)}

\* sheets.filter(s => s.id !== sheetId)
WithoutSheet(list, sheetId) == SelectSeq(list, LAMBDA id : id # sheetId)

\* handleDeleteSheet(sheetId) up to its await, the user confirming: with one
\* sheet left it alerts and returns; otherwise the request is sent, and the
\* continuation keeps the sheets and the activeSheetId of this render
DeleteSheet(sheetId) ==
    /\ sheetId \in Range(sheets)
    /\ Len(deletes) < MaxDeletes
    /\ IF Len(sheets) <= 1
       THEN /\ lastEvent' = Event("deleteRefused", <<>>, <<>>, <<>>, 0)
            /\ UNCHANGED deletes
       ELSE /\ deletes' = Append(deletes,
                             [sheetId |-> sheetId, sheets |-> sheets,
                              activeSheetId |-> activeSheetId, state |-> "sent"])
            /\ lastEvent' = Event("deleteSent", <<>>, <<>>, <<>>, Len(deletes) + 1)
    /\ UNCHANGED <<activeSheetId, schema, gridData, isLoading, selectedCell,
                   editingCell, focus, currentFormula, tables, loads, updates,
                   engine, sheets>>
    /\ UNCHANGED <<codecVars, backingColumnNames, formulaInput, lastOp, fillVars,
                   panelVars, workerVars>>

\* the backend answers api.deleteSheet, or fails
ServeDelete(i, ok) ==
    /\ deletes[i].state = "sent"
    /\ deletes' = [deletes EXCEPT ![i].state = IF ok THEN "ok" ELSE "failed"]
    /\ lastEvent' = Event("request", <<>>, <<>>, <<>>, 0)
    /\ UNCHANGED <<activeSheetId, schema, gridData, isLoading, selectedCell,
                   editingCell, focus, currentFormula, tables, loads, updates,
                   engine, sheets>>
    /\ UNCHANGED <<codecVars, backingColumnNames, formulaInput, lastOp, fillVars,
                   panelVars, workerVars>>

\* the continuation of handleDeleteSheet after its await, and the render
\* that follows: a new sheets array runs the load effect, and loadSheetData
\* returns at once when the active sheet is not in the list
DeliverDelete(i) ==
    /\ deletes[i].state \in {"ok", "failed"}
    /\ IF deletes[i].state = "failed"
       THEN /\ lastEvent' = Event("deleteFailed", <<>>, <<>>, <<>>, i)
            /\ UNCHANGED <<sheets, activeSheetId, isLoading, gridData, schema,
                           selectedCell, editingCell, focus, currentFormula, loads>>
       ELSE LET newSheets == WithoutSheet(deletes[i].sheets, deletes[i].sheetId)
                active == IF deletes[i].activeSheetId = deletes[i].sheetId
                          THEN newSheets[1]
                          ELSE activeSheetId
            IN  /\ sheets' = newSheets
                /\ activeSheetId' = active
                /\ lastEvent' = Event("deleteDone", <<>>, <<>>, <<>>, i)
                /\ IF active # NoSheet /\ active \in Range(newSheets)
                   THEN loadSheetData(active, "effect")
                   ELSE UNCHANGED <<isLoading, gridData, schema, selectedCell,
                                    editingCell, focus, currentFormula, loads>>
    /\ deletes' = [deletes EXCEPT ![i].state = "done"]
    /\ UNCHANGED <<tables, updates, engine>>
    /\ UNCHANGED <<codecVars, backingColumnNames, formulaInput, lastOp, fillVars,
                   panelVars, workerVars>>

\* a click on the tab of a sheet of the list
SelectTab(sheetId) ==
    /\ sheetId \in Range(sheets)
    /\ Len(SelectSeq(loads, LAMBDA l : l.trigger = "effect")) < 1 + MaxTabClicks
    /\ SelectSheet(sheetId)

TabsNext ==
    \/ \E sheetId \in SheetIds : DeleteSheet(sheetId)
    \/ \E i \in 1..Len(deletes), ok \in BOOLEAN : ServeDelete(i, ok)
    \/ \E i \in 1..Len(deletes) : DeliverDelete(i)
    \/ \E sheetId \in SheetIds : SelectTab(sheetId)
    \/ \E i \in 1..Len(loads), ok \in BOOLEAN : ServeLoad(i, ok)
    \/ \E i \in 1..Len(loads) : DeliverLoad(i)

SpecTabs == AppInit /\ [][TabsNext]_vars

\* C38: handleDeleteSheet sends no request and removes nothing when one sheet
\* is left, and the list never becomes empty; after a successful delete the
\* active sheet is a sheet of the list, the first one when the active sheet
\* was the one deleted; after a failed delete the list and the active sheet
\* are as before.
C38_DeleteKeepsActiveSheetListed ==
    [][/\ (Len(deletes') > Len(deletes)) => Len(sheets) > 1
       /\ Len(sheets') >= 1
       /\ (lastEvent'.type = "deleteDone")
             => /\ activeSheetId' \in Range(sheets')
                /\ (activeSheetId = deletes[lastEvent'.id].sheetId)
                      => activeSheetId' = sheets'[1]
       /\ (lastEvent'.type = "deleteFailed")
             => /\ sheets' = sheets
                /\ activeSheetId' = activeSheetId
      ]_vars

------------------------------------------------------------------------------
(* The database worker: useDatabase.sendMessage and worker.onmessage on the  *)
(* page, self.onmessage in the worker, and the 60-second timer of every     *)
(* request.                                                                 *)

MaxRequests == 3      \* sendMessage calls in SpecWorker

\* the message types callers send; "export" is one the worker does not know
MessageTypes == {"query", "export"}

\* the promise of request i is settled: resolve or reject is called on it
Settle(reqs, i, outcome) ==
    [reqs EXCEPT ![i].settles = @ + 1, ![i].outcome = outcome]

\* a handler that settles the request of a response without looking the id
\* up in the map
UncheckedOnMessage(pending, reqs, i) ==
    [pendingRequests |-> pending \ {reqs[i].id},
     requests |-> Settle(reqs, i, IF reqs[i].success THEN "resolved" ELSE "rejected")]

\* worker.onmessage: the response of request i arrives
onmessage(pending, reqs, i) ==
    IF reqs[i].id \notin pending
    THEN [pendingRequests |-> pending, requests |-> reqs]
    ELSE [pendingRequests |-> pending \ {reqs[i].id},
          requests |-> Settle(reqs, i,
                              IF reqs[i].success THEN "resolved" ELSE "rejected")]

\* the callback of the setTimeout of request i
onTimeout(pending, reqs, i) ==
    IF reqs[i].id \in pending
    THEN [pendingRequests |-> pending \ {reqs[i].id},
          requests |-> Settle(reqs, i, "timeout")]
    ELSE [pendingRequests |-> pending, requests |-> reqs]

workerFrame == <<codecVars, engineVars, appCore, tabVars>>

\* sendMessage(message): a fresh id (crypto.randomUUID(), the position here)
\* enters the map, the message is posted and the timer is armed
SendMessage(type) ==
    /\ Len(requests) < MaxRequests
    /\ pendingRequests' = pendingRequests \cup {Len(requests) + 1}
    /\ requests' = Append(requests,
          [id |-> Len(requests) + 1, type |-> type, worker |-> "posted",
           success |-> FALSE, timer |-> "armed", settles |-> 0,
           outcome |-> "none"])
    /\ UNCHANGED workerFrame

\* self.onmessage in the worker: one response with the id of the message,
\* success: true when the operation returned, success: false when it threw,
\* as it does for a type the switch does not know
WorkerAnswer(i, success) ==
    /\ requests[i].worker = "posted"
    /\ requests[i].type \notin {"query"} => ~success
    /\ requests' = [requests EXCEPT ![i].worker = "answered",
                                    ![i].success = success]
    /\ UNCHANGED pendingRequests
    /\ UNCHANGED workerFrame

\* the response of request i reaches worker.onmessage
DeliverResponse(i) ==
    /\ requests[i].worker = "answered"
    /\ LET r == onmessage(pendingRequests,
                          [requests EXCEPT ![i].worker = "delivered"], i)
       IN  /\ pendingRequests' = r.pendingRequests
           /\ requests' = r.requests
    /\ UNCHANGED workerFrame

\* the timer of request i fires
Timeout(i) ==
    /\ requests[i].timer = "armed"
    /\ LET r == onTimeout(pendingRequests,
                          [requests EXCEPT ![i].timer = "fired"], i)
       IN  /\ pendingRequests' = r.pendingRequests
           /\ requests' = r.requests
    /\ UNCHANGED workerFrame

WorkerInit ==
    /\ engine = EmptyEngine
    /\ backingColumnNames = AppColumnNames
    /\ formulaInput = NoFormula
    /\ lastOp = NoOp
    /\ colIndex = 0 /\ rowIndex = 0 /\ column = <<"A">>
    /\ ntcIndex = 0 /\ ntcResult = <<>> /\ ntcSteps = 0
    /\ address = NoAddress
    /\ parsed = NotParsed
    /\ ctnResult = NotComputed
    /\ ParseIdle
    /\ AppIdle

WorkerNext ==
    \/ \E type \in MessageTypes : SendMessage(type)
    \/ \E i \in 1..Len(requests), success \in BOOLEAN : WorkerAnswer(i, success)
    \/ \E i \in 1..Len(requests) : DeliverResponse(i)
    \/ \E i \in 1..Len(requests) : Timeout(i)

SpecWorker == WorkerInit /\ [][WorkerNext]_vars

\* a timer that was armed fires: setTimeout runs its callback whatever the
\* worker does; the worker itself may never answer
SpecWorkerFair ==
    /\ SpecWorker
    /\ \A i \in 1..MaxRequests : WF_vars(i <= Len(requests) /\ Timeout(i))

\* C39: every request sent to the worker is settled exactly once.  It is
\* never settled twice, it is pending exactly while it is not settled, and
\* it is resolved or rejected only by the response with its id or rejected
\* by its timer; a response whose id is not pending changes nothing; and
\* every request sent is settled in the end.
C39_SettledExactlyOnce ==
    /\ [](\A i \in 1..Len(requests) :
             /\ requests[i].settles <= 1
             /\ (requests[i].id \in pendingRequests) <=> (requests[i].settles = 0)
             /\ requests[i].outcome \in {"resolved", "rejected"}
                   => requests[i].worker = "delivered"
             /\ requests[i].outcome = "resolved" => requests[i].success
             /\ requests[i].outcome = "timeout" => requests[i].timer = "fired")
    /\ [][\A i \in 1..Len(requests) :
             /\ ( /\ requests[i].worker = "answered"
                  /\ requests'[i].worker = "delivered"
                  /\ requests[i].id \notin pendingRequests )
                   => /\ pendingRequests' = pendingRequests
                      /\ \A k \in 1..Len(requests) :
                            requests'[k].settles = requests[k].settles
             /\ ( /\ requests'[i].settles # requests[i].settles
                  /\ requests'[i].outcome # "timeout" )
                   => /\ requests[i].worker = "answered"
                      /\ requests'[i].worker = "delivered"
         ]_vars
    /\ \A i \in 1..MaxRequests :
          (Len(requests) >= i) ~> (Len(requests) >= i /\ requests[i].settles = 1)

\* the first request was rejected by its timer and its response, arriving
\* afterwards, was ignored, while the second was resolved by its response
C39_Witness ==
    /\ Len(requests) >= 2
    /\ requests[1].outcome = "timeout"
    /\ requests[1].worker = "delivered"
    /\ requests[1].settles = 1
    /\ requests[2].outcome = "resolved"
    /\ requests[2].settles = 1
    /\ pendingRequests \subseteq {3}

====
